---- MODULE Spec2Model ----
(***************************************************************************)
(* A model of the mostro-skill client: the persisted state under           *)
(* ~/.mostro-skill (seed, trade-state.json, audit.log), the safety module  *)
(* (checkLimits / recordTrade / auditLog), the trade-index cursor of the   *)
(* key module, and the scripts that drive them (create-order, take-order,  *)
(* restore-session, trade-status, the scripts acting on an existing order, *)
(* chat's getPeerTradePubkey), with the library calls auto-trade makes,    *)
(* and the relay client (sendGiftWrap, fetchGiftWraps, P2P chat wrappers). *)
(*                                                                         *)
(* Time is counted in seconds.  A UTC day is DayLen seconds long (scaled   *)
(* down from 86400) so that the date rolls over within the bounds; the     *)
(* relay client's windows and timestamp offsets keep their real lengths.   *)
(***************************************************************************)
EXTENDS Integers, Sequences, FiniteSets, TLC

\* ─── Bounds ────────────────────────────────────────────────────────────────
DayLen == 2          \* seconds per UTC day (scaled)
MaxNow == 2          \* the clock stops advancing here
MaxIndex == 2        \* the cursor is not advanced beyond this
MaxAudit == 2        \* the audit journal is followed up to this length
MaxCoordIndex == 2   \* trade indexes the coordinator may report
MaxSats == 2         \* sats amounts 1..MaxSats passed to the safety module directly
MaxRecords == 2      \* recordTrade calls per day made directly
MaxCalls == 2        \* getNextTradeKeys calls of each racing process
MaxPolls == 2        \* polls getPeerTradePubkey makes before its deadline
MaxRelays == 2       \* relays in the configuration
MaxBatch == 2        \* events a fetch returns

\* ─── Program constants ─────────────────────────────────────────────────────
KeepDays == 7
SatsPerBtc == 100000000
FallbackSatsPerFiat == 1000
StaleSeconds == 30
TwoDays == 172800
ThreeDays == 259200
TweakMargin == 60
DefaultSinceMinutes == 60

VARIABLES
  now,          \* wall clock, seconds
  seedFile,     \* ~/.mostro-skill/seed
  fileExists,   \* whether ~/.mostro-skill/trade-state.json exists
  stateFile,    \* its parsed JSON object (a function from key names)
  audit,        \* ~/.mostro-skill/audit.log, one entry per line
  limits,       \* config.limits
  lastRun,      \* what the most recent script run did (observation)
  sentUnder,    \* index -> number of new-trade requests published under it (capped at 2)
  lastRecorded, \* one completed recordTrade of the past (observation)
  procs,        \* the two racing client processes of SpecRace
  coordLast     \* the last trade index the coordinator holds for this identity (0: none)

seqVars == <<now, seedFile, fileExists, stateFile, audit, limits, lastRun, sentUnder, lastRecorded>>
vars == <<now, seedFile, fileExists, stateFile, audit, limits, lastRun, sentUnder, lastRecorded,
          procs, coordLast>>

\* ─── JSON objects ──────────────────────────────────────────────────────────
EmptyObj == <<>>
Has(obj, k) == k \in DOMAIN obj
\* `map[key] ?? 0`
Lookup(map, key) == IF key \in DOMAIN map THEN map[key] ELSE 0
Restrict(map, keys) == [k \in keys |-> map[k]]
Min2(a, b) == IF a < b THEN a ELSE b

\* ─── safety.ts ─────────────────────────────────────────────────────────────
DefaultState == ("daily_volume" :> EmptyObj) @@ ("daily_trades" :> EmptyObj)

\* JSON.parse of the file, whatever keys it holds; the defaults only for an absent file
loadState(exists, file) == IF ~exists THEN DefaultState ELSE file

todayKey(t) == t \div DayLen

NoReason == <<>>
Allowed == [allowed |-> TRUE, threw |-> FALSE, reason |-> NoReason]
Denied(r) == [allowed |-> FALSE, threw |-> FALSE, reason |-> r]
\* state.daily_volume[today] with state.daily_volume undefined raises a TypeError
Threw == [allowed |-> FALSE, threw |-> TRUE, reason |-> NoReason]

checkLimits(lim, satsAmount, exists, file, t) ==
  LET state == loadState(exists, file)
      today == todayKey(t)
  IN IF satsAmount > lim.max_trade_amount_sats
       THEN Denied(<<"amount", satsAmount, lim.max_trade_amount_sats>>)
     ELSE IF ~Has(state, "daily_volume") THEN Threw
     ELSE LET todayVolume == Lookup(state.daily_volume, today) IN
       IF todayVolume + satsAmount > lim.max_daily_volume_sats
         THEN Denied(<<"volume", todayVolume + satsAmount, lim.max_daily_volume_sats>>)
       ELSE IF ~Has(state, "daily_trades") THEN Threw
       ELSE LET todayTrades == Lookup(state.daily_trades, today) IN
         IF todayTrades >= lim.max_trades_per_day
           THEN Denied(<<"count", todayTrades, lim.max_trades_per_day>>)
         ELSE IF /\ Has(state, "last_trade_at")
                 /\ lim.cooldown_seconds > 0
                 /\ t - state.last_trade_at < lim.cooldown_seconds
           THEN Denied(<<"cooldown", lim.cooldown_seconds - (t - state.last_trade_at)>>)
         ELSE Allowed

\* A faulty recordTrade that counts the trade but does not add its amount to the
\* day's volume
updateStateForgettingVolume(state, satsAmount, t, offsetChange) ==
  LET today == todayKey(t)
  IN IF ~Has(state, "daily_volume") \/ ~Has(state, "daily_trades")
       THEN [threw |-> TRUE, state |-> state]
     ELSE [threw |-> FALSE,
           state |-> ("daily_trades" :>
                        ((today :> (Lookup(state.daily_trades, today) + 1)) @@ state.daily_trades))
                     @@ ("last_trade_at" :> t) @@ state]

\* recordTrade between loadState and saveState: the updated state object, or a TypeError
\* when state.daily_volume / state.daily_trades is undefined
\* sevenDaysAgo.setDate(getDate() - 7) goes back seven days on the local calendar, to
\* the same local time of day: that instant is 7 days before t, shifted by the change
\* of the zone's UTC offset in between; the cutoff is its UTC date.
cutoffKey(t, offsetChange) == todayKey(t - KeepDays * DayLen - offsetChange)

\* the zone's UTC offset a week ago minus the one now: none, or a daylight-saving
\* step either way (a part of a day)
OffsetChanges == {0 - 1, 0, 1}

updateState(state, satsAmount, t, offsetChange) ==
  LET today == todayKey(t)
      cutoff == cutoffKey(t, offsetChange)
  IN IF ~Has(state, "daily_volume") \/ ~Has(state, "daily_trades")
       THEN [threw |-> TRUE, state |-> state]
     ELSE LET vol1 == (today :> (Lookup(state.daily_volume, today) + satsAmount)) @@ state.daily_volume
              cnt1 == (today :> (Lookup(state.daily_trades, today) + 1)) @@ state.daily_trades
              old == {k \in DOMAIN vol1 : k < cutoff}
              vol2 == Restrict(vol1, DOMAIN vol1 \ old)
              cnt2 == Restrict(cnt1, DOMAIN cnt1 \ old)
          IN [threw |-> FALSE,
              state |-> ("daily_volume" :> vol2) @@ ("daily_trades" :> cnt2)
                        @@ ("last_trade_at" :> t) @@ state]

\* The result of recordTrade: whether it raised, and the file it leaves behind.
recordTrade(satsAmount, exists, file, t, offsetChange) ==
  LET u == updateState(loadState(exists, file), satsAmount, t, offsetChange)
  IN IF u.threw THEN [threw |-> TRUE, exists |-> exists, file |-> file]
     ELSE [threw |-> FALSE, exists |-> TRUE, file |-> u.state]

\* ─── keys.ts: trade index persistence ──────────────────────────────────────
loadTradeKeyState(exists, file) ==
  IF ~exists THEN 1
  ELSE IF Has(file, "next_trade_index") THEN file.next_trade_index ELSE 1

\* saveTradeKeyState reads the existing file, then writes it back with the new index
readExisting(exists, file) == IF exists THEN file ELSE EmptyObj
\* A faulty merge that writes the cursor alone
mergeTradeKeyStateAlone(existing, index) == "next_trade_index" :> index

mergeTradeKeyState(existing, index) == ("next_trade_index" :> index) @@ existing
saveTradeKeyState(exists, file, index) ==
  mergeTradeKeyState(readExisting(exists, file), index)

\* keys.getTradeKeys(index): the key is a pure function of the mnemonic and the index
getTradeKeys(mnemonic, index) == [seed |-> mnemonic, index |-> index]

getNextTradeKeys(mnemonic, exists, file) ==
  LET index == loadTradeKeyState(exists, file)
  IN IF index < 1
       THEN [threw |-> TRUE, index |-> index, key |-> getTradeKeys(mnemonic, index),
             exists |-> exists, file |-> file]
       ELSE [threw |-> FALSE, index |-> index, key |-> getTradeKeys(mnemonic, index),
             exists |-> TRUE, file |-> saveTradeKeyState(exists, file, index + 1)]

getCurrentTradeIndex(exists, file) == loadTradeKeyState(exists, file)

setTradeIndex(exists, file, index) == saveTradeKeyState(exists, file, index)

\* ─── keys.ts: seed storage ─────────────────────────────────────────────────
\* A string is its text and whether it carries surrounding whitespace.
Str(text, padded) == [text |-> text, padded |-> padded]
trim(s) == [s EXCEPT !.padded = FALSE]
\* null and "" are both falsy; loadMnemonic's null is represented by the empty string
EmptyStr == Str("", FALSE)
Truthy(s) == s.text # ""

\* stand-ins for 12-word phrases whose checksum is valid
ValidPhrases == {"abandon", "legal"}
validateMnemonic(s) == s.text \in ValidPhrases /\ ~s.padded

NoSeed == [exists |-> FALSE, content |-> EmptyStr]
saveMnemonic(mnemonic) == [exists |-> TRUE, content |-> mnemonic]
loadMnemonic(seed) == IF ~seed.exists THEN EmptyStr ELSE trim(seed.content)
hasSeed(seed) == seed.exists

\* A faulty getOrCreateKeys that generates and saves a mnemonic on every call
getOrCreateKeysRegenerating(seed, generated) ==
  [threw |-> FALSE, mnemonic |-> generated, isNew |-> TRUE, seed |-> saveMnemonic(generated)]

\* generated: the phrase generateNewMnemonic() would draw
getOrCreateKeys(seed, generated) ==
  LET existing == loadMnemonic(seed)
  IN IF Truthy(existing)
       THEN [threw |-> ~validateMnemonic(existing), mnemonic |-> existing,
             isNew |-> FALSE, seed |-> seed]
       ELSE [threw |-> FALSE, mnemonic |-> generated,
             isNew |-> TRUE, seed |-> saveMnemonic(generated)]

importMnemonic(seed, mnemonic) ==
  LET trimmed == trim(mnemonic)
  IN IF ~validateMnemonic(trimmed)
       THEN [threw |-> TRUE, mnemonic |-> trimmed, seed |-> seed]
       ELSE [threw |-> FALSE, mnemonic |-> trimmed, seed |-> saveMnemonic(trimmed)]

\* ─── safety.ts: audit journal ──────────────────────────────────────────────
Entry(action, result, details) == [action |-> action, result |-> result, details |-> details]
auditLog(journal, entry) == Append(journal, entry)

\* ─── Messages ──────────────────────────────────────────────────────────────
\* 0 stands for an absent request_id / trade_index
NoId == 0
\* Math.floor(Math.random() * 2 ** 48): one value stands for the draw, another for
\* the id of a request of an earlier session
RequestIds == {1}
OtherId == 2

\* protocol.ts buildOrderMessage / buildRestoreMessage, and the trade key that signs
OrderMessage(action, requestId, tradeIndex, keyIndex) ==
  [category |-> "order", action |-> action, request_id |-> requestId,
   trade_index |-> tradeIndex, key |-> keyIndex]
RestoreMessage(action, keyIndex) ==
  [category |-> "restore", action |-> action, request_id |-> NoId,
   trade_index |-> NoId, key |-> keyIndex]

\* A fetched reply: the inner message kind and the rumor's age at fetch time.
Reply(action, requestId, tradeIndex, age, amount) ==
  [action |-> action, request_id |-> requestId, trade_index |-> tradeIndex,
   age |-> age, amount |-> amount, id |-> "none"]
ReplyAbout(orderId, action, requestId, age) ==
  [Reply(action, requestId, NoId, age, 0) EXCEPT !.id = orderId]

\* ─── lib/protocol.ts: response parsing ─────────────────────────────────────
\* A fetched message is an object with one top-level key (its category) holding the kind.
KnownCategories == {"order", "dispute", "cant-do", "cant_do", "rate", "dm", "restore"}
Msg(category, kind) == [category |-> category, kind |-> kind]
UnknownKind == Reply("unknown", NoId, NoId, 0, 0)

getInnerMessageKind(msg) ==
  IF msg.category \in KnownCategories THEN msg.kind ELSE UnknownKind

\* the kind of a response; a response a script model holds unwrapped is its own kind
kindOf(resp) == IF "category" \in DOMAIN resp THEN getInnerMessageKind(resp) ELSE resp

filterResponsesWithFallback(responses, requestId) ==
  LET matching == SelectSeq(responses, LAMBDA r : kindOf(r).request_id = requestId)
  IN IF matching = <<>> /\ responses # <<>>
       THEN <<responses[Len(responses)]>>
       ELSE matching

filterResponsesByRequestId(responses, requestId) ==
  SelectSeq(responses, LAMBDA r : kindOf(r).request_id = requestId)

SeqsUpTo2(S) == {<<>>} \cup {<<a>> : a \in S} \cup {<<a, b>> : a \in S, b \in S}

\* ─── Script runs ───────────────────────────────────────────────────────────
NotChecked == [allowed |-> FALSE, threw |-> FALSE, reason |-> <<"not-checked">>]

BlankRun ==
  [script |-> "none", exit |-> "ok", dryRun |-> FALSE, at |-> 0,
   checked |-> FALSE, check |-> NotChecked, amount |-> 0,
   published |-> <<>>, isNew |-> FALSE, allocated |-> <<>>,
   answer |-> NoId, anyAnswer |-> FALSE, cursorBefore |-> 0, cursorAtRestore |-> 0,
   imported |-> FALSE, mnemonic |-> EmptyStr,
   fellBack |-> FALSE, ageChecked |-> FALSE, warned |-> FALSE, shownAge |-> 0,
   shown |-> <<>>, opened |-> 0, closed |-> 0, fetched |-> <<>>, net |-> [fn |-> "none"],
   fiat |-> 0, price |-> 0]

NewTradeActions == {"new-order", "take-sell", "take-buy"}

\* sentUnder after publishing msgs: new-trade requests counted per signing key index
RECURSIVE CountSent(_, _)
CountSent(counts, msgs) ==
  IF msgs = <<>> THEN counts
  ELSE LET m == Head(msgs) IN
    CountSent(IF m.action \in NewTradeActions
                THEN [counts EXCEPT ![m.key] = Min2(2, @ + 1)]
                ELSE counts,
              Tail(msgs))

\* Math.round(n / d) for positive n, d
Round(n, d) == (2 * n + d) \div (2 * d)

\* A JavaScript value that may be undefined (also: an absent key) or null.
Undefined == [tag |-> "undefined", v |-> <<>>]
Null == [tag |-> "null", v |-> <<>>]
Val(x) == [tag |-> "value", v |-> <<x>>]
Nullish(x) == x.tag \in {"undefined", "null"}
\* x ?? d
Coalesce(x, d) == IF Nullish(x) THEN d ELSE x
\* the number in a value that holds one
Num(x) == x.v[1]

toUpperCase(code) ==
  CASE code \in {"usd", "Usd", "USD"} -> "USD"
    [] code \in {"ves", "VES"} -> "VES"

\* ─── lib/safety.ts: the price oracle ───────────────────────────────────────
\* What the request to the price API can give: fetch or res.json() throws, a body
\* without BTC, or a body whose BTC object holds a rate for each of some currencies.
OracleThrew == [threw |-> TRUE, BTC |-> Undefined]
OracleRates(codes) == [threw |-> FALSE, BTC |-> Val([c \in codes |-> SatsPerBtc])]
OracleAnswers ==
  {OracleThrew, [threw |-> FALSE, BTC |-> Undefined], OracleRates({"VES"}),
   OracleRates({"USD", "VES"})}

\* data?.BTC?.[fiatCode.toUpperCase()] ?? null, null when anything throws
fetchBtcPrice(answer, fiatCode) ==
  IF answer.threw \/ Nullish(answer.BTC) THEN Null
  ELSE LET rates == Num(answer.BTC)
       IN IF toUpperCase(fiatCode) \in DOMAIN rates
            THEN Val(rates[toUpperCase(fiatCode)])
            ELSE Null

\* 0 stands for a failed or empty oracle answer
NoPrice == 0
Prices == {IF Nullish(fetchBtcPrice(a, "usd")) THEN NoPrice ELSE Num(fetchBtcPrice(a, "usd")) :
             a \in OracleAnswers}
\* --fiat-amount: two sizes, told apart by every limit of LimitConfigs
FiatAmounts == {1, 2}

\* create-order.ts: the size in sats used for the limit check
estimateSats(fiat_amount, btcPrice) ==
  IF btcPrice # NoPrice /\ btcPrice > 0
    THEN Round(fiat_amount * SatsPerBtc, btcPrice)
    ELSE fiat_amount * FallbackSatsPerFiat

\* ─── The persisted state a run works on ────────────────────────────────────
NoRecord == [day |-> 0 - 1, pre |-> 0, s |-> 0]

Env == [seed |-> seedFile, exists |-> fileExists, file |-> stateFile,
        audit |-> audit, recorded |-> lastRecorded, threw |-> FALSE]

\* recordTrade applied to the files of env
doRecordTrade(env, satsAmount, t, offsetChange) ==
  LET r == recordTrade(satsAmount, env.exists, env.file, t, offsetChange)
      before == loadState(env.exists, env.file)
  IN IF r.threw THEN [env EXCEPT !.threw = TRUE]
     ELSE [env EXCEPT !.exists = r.exists, !.file = r.file,
                      !.recorded = [day |-> todayKey(t),
                                    pre |-> Lookup(before.daily_volume, todayKey(t)),
                                    s |-> satsAmount]]

doAuditLog(env, entry) == [env EXCEPT !.audit = auditLog(@, entry)]

Out(env, t, run) == [env |-> env, t |-> t, run |-> run]

ApplyRun(out) ==
  /\ seedFile' = out.env.seed
  /\ fileExists' = out.env.exists
  /\ stateFile' = out.env.file
  /\ audit' = out.env.audit
  /\ lastRecorded' = out.env.recorded
  /\ now' = out.t
  /\ lastRun' = out.run
  /\ sentUnder' = CountSent(sentUnder, out.run.published)
  /\ UNCHANGED <<limits, procs>>

Apply(out) == ApplyRun(out) /\ UNCHANGED coordLast

\* runs are followed until the journal is full
JournalOpen == Len(audit) < MaxAudit
Journalled == Len(audit') <= MaxAudit

\* Replies that do not answer this run's request were sent to an identity that
\* existed before the run.
HadIdentity == seedFile.exists

\* a run returns within the second it started in, or in the next one
Waits == 0..Min2(1, MaxNow - now)
\* the phrase generateNewMnemonic() draws: one valid phrase stands for the random draw
Generated == {Str("abandon", FALSE)}

\* ─── scripts/create-order.ts ───────────────────────────────────────────────
CreateOrderReplies(rid) ==
  {Reply("new-order", rid, NoId, 0, a) : a \in {0, 2}}
    \cup {Reply("cant-do", rid, NoId, 0, 0), Reply("pay-invoice", rid, NoId, 0, 0)}
    \cup (IF HadIdentity THEN {Reply("new-order", OtherId, NoId, 0, 0)} ELSE {})

RECURSIVE createOrderDispatch(_, _, _, _)
createOrderDispatch(filtered, env, estimatedSats, t) ==
  IF filtered = <<>> \/ env.threw THEN env
  ELSE LET kind == Head(filtered) IN
    IF kind.action = "new-order"
      THEN LET actualSats == IF kind.amount # 0 THEN kind.amount ELSE estimatedSats
               \* no date is a week old yet, whatever the zone
               recorded == doRecordTrade(env, actualSats, t, 0)
           IN IF recorded.threw THEN recorded
              ELSE createOrderDispatch(
                     Tail(filtered),
                     doAuditLog(recorded, Entry("create-order", "success", <<"sats", actualSats>>)),
                     estimatedSats, t)
    ELSE IF kind.action = "cant-do"
      THEN createOrderDispatch(
             Tail(filtered),
             doAuditLog(env, Entry("create-order", "failed", <<"cant-do">>)),
             estimatedSats, t)
    ELSE createOrderDispatch(Tail(filtered), env, estimatedSats, t)

\* A faulty denial branch that leaves without writing the journal
createOrderDeniedSilently(limitCheck, run) ==
  Out(Env, now, [run EXCEPT !.exit = "exit1"])

\* the branch `if (!limitCheck.allowed)`: the rejected entry, then process.exit(1)
createOrderDenied(limitCheck, run) ==
  Out(doAuditLog(Env, Entry("create-order", "rejected", limitCheck.reason)),
      now, [run EXCEPT !.exit = "exit1"])

createOrderRun(fiat_amount, btcPrice, generated, pubOk, w, requestId, responses) ==
  LET estimatedSats == estimateSats(fiat_amount, btcPrice)
      limitCheck == checkLimits(limits, estimatedSats, fileExists, stateFile, now)
      run == [BlankRun EXCEPT !.script = "create-order", !.checked = TRUE, !.at = now,
                              !.check = limitCheck, !.amount = estimatedSats,
                              !.fiat = fiat_amount, !.price = btcPrice]
  IN IF limitCheck.threw THEN Out(Env, now, [run EXCEPT !.exit = "error"])
     ELSE IF ~limitCheck.allowed THEN createOrderDenied(limitCheck, run)
     ELSE LET k == getOrCreateKeys(seedFile, generated)
              env1 == [Env EXCEPT !.seed = k.seed]
              run1 == [run EXCEPT !.isNew = k.isNew, !.mnemonic = k.mnemonic]
          IN IF k.threw THEN Out(Env, now, [run EXCEPT !.exit = "error"])
             ELSE IF ~pubOk THEN Out(env1, now, [run1 EXCEPT !.exit = "error"])
             ELSE LET run2 == [run1 EXCEPT !.published = <<OrderMessage("new-order", requestId, 1, 1)>>]
                      t2 == now + w
                  IN IF responses = <<>>
                       THEN Out(doAuditLog(env1, Entry("create-order", "pending", NoReason)), t2, run2)
                     ELSE LET env2 == createOrderDispatch(
                                        filterResponsesByRequestId(responses, requestId),
                                        env1, estimatedSats, t2)
                          IN Out([env2 EXCEPT !.threw = FALSE], t2,
                                 IF env2.threw THEN [run2 EXCEPT !.exit = "error"] ELSE run2)

CreateOrder ==
  /\ JournalOpen
  /\ \E fiat_amount \in FiatAmounts, btcPrice \in Prices, generated \in Generated,
        requestId \in RequestIds :
       \* a run stopped by the limit check reads no further input
       LET passes == checkLimits(limits, estimateSats(fiat_amount, btcPrice),
                                 fileExists, stateFile, now).allowed
       IN \E pubOk \in (IF passes THEN BOOLEAN ELSE {FALSE}) :
            \E w \in (IF pubOk THEN Waits ELSE {0}),
               responses \in (IF pubOk THEN SeqsUpTo2(CreateOrderReplies(requestId))
                                        ELSE {<<>>}) :
              /\ Apply(createOrderRun(fiat_amount, btcPrice, generated, pubOk, w,
                                      requestId, responses))
              /\ Journalled

\* ─── scripts/take-order.ts ─────────────────────────────────────────────────
TakeActions == {"take-sell", "take-buy"}

TakeOrderReplies(rid) ==
  {Reply("pay-invoice", rid, NoId, 0, 0), Reply("cant-do", rid, NoId, 0, 0)}
    \cup (IF HadIdentity THEN {Reply("pay-invoice", OtherId, NoId, 0, 0)} ELSE {})

RECURSIVE takeOrderDispatch(_, _, _)
takeOrderDispatch(filtered, env, action) ==
  IF filtered = <<>> THEN env
  ELSE LET kind == Head(filtered) IN
    takeOrderDispatch(
      Tail(filtered),
      doAuditLog(env, Entry(action,
                            IF kind.action = "cant-do" THEN "failed" ELSE "success",
                            <<kind.action>>)),
      action)

takeOrderRun(action, generated, pubOk, w, requestId, responses) ==
  LET k == getOrCreateKeys(seedFile, generated)
      env1 == [Env EXCEPT !.seed = k.seed]
      run == [BlankRun EXCEPT !.script = "take-order", !.isNew = k.isNew,
                              !.mnemonic = k.mnemonic]
  IN IF k.threw THEN Out(Env, now, [run EXCEPT !.exit = "error"])
     ELSE IF ~pubOk THEN Out(env1, now, [run EXCEPT !.exit = "error"])
     ELSE LET run1 == [run EXCEPT !.published = <<OrderMessage(action, requestId, 1, 1)>>]
              t2 == now + w
          IN IF responses = <<>> THEN Out(env1, t2, run1)
             ELSE Out(takeOrderDispatch(filterResponsesByRequestId(responses, requestId),
                                        env1, action),
                      t2, run1)

TakeOrder ==
  /\ JournalOpen
  /\ \E action \in TakeActions, generated \in Generated, pubOk \in BOOLEAN,
        requestId \in RequestIds :
       \E w \in (IF pubOk THEN Waits ELSE {0}),
          responses \in (IF pubOk THEN SeqsUpTo2(TakeOrderReplies(requestId)) ELSE {<<>>}) :
         /\ Apply(takeOrderRun(action, generated, pubOk, w, requestId, responses))
         /\ Journalled

\* ─── lib/protocol.ts: response parsing, continued ──────────────────────────
innerKinds(responses) == [i \in DOMAIN responses |-> getInnerMessageKind(responses[i])]

\* ─── scripts on an existing order: cancel-order, fiat-sent, release, ────────
\* ─── rate-user, add-invoice, dispute-chat ──────────────────────────────────
\* name: the action written to the journal; request: the action sent, with its
\* trade_index; filters: whether the replies go through filterResponsesByRequestId;
\* ok: the reply the script announces as its success
Script(name, request, tradeIndex, filters, ok) ==
  [name |-> name, request |-> request, tradeIndex |-> tradeIndex, filters |-> filters,
   ok |-> ok]

OrderScripts ==
  {Script("cancel", "cancel", NoId, FALSE, "canceled"),
   Script("fiat-sent", "fiat-sent", NoId, TRUE, "fiat-sent-ok"),
   Script("release", "release", NoId, TRUE, "released"),
   Script("rate-user", "rate-user", NoId, TRUE, "rate-received"),
   Script("add-invoice", "add-invoice", 1, FALSE, "buyer-invoice-accepted"),
   Script("dispute-chat", "send-dm", 1, FALSE, "send-dm")}

OrderScriptNames == {sc.name : sc \in OrderScripts}

\* details of the audit entry: rate-user writes the rating, the others the reply's action
orderScriptDetails(sc, kind) ==
  IF sc.name = "rate-user" THEN <<"rating">> ELSE <<kind.action>>

RECURSIVE orderScriptDispatch(_, _, _)
orderScriptDispatch(kinds, env, sc) ==
  IF kinds = <<>> THEN env
  ELSE LET kind == Head(kinds) IN
    orderScriptDispatch(
      Tail(kinds),
      doAuditLog(env, Entry(sc.name,
                            IF kind.action = "cant-do" THEN "failed" ELSE "success",
                            orderScriptDetails(sc, kind))),
      sc)

orderScriptRun(sc, generated, pubOk, w, requestId, responses) ==
  LET k == getOrCreateKeys(seedFile, generated)
      env1 == [Env EXCEPT !.seed = k.seed]
      run == [BlankRun EXCEPT !.script = sc.name, !.isNew = k.isNew,
                              !.mnemonic = k.mnemonic, !.at = now]
  IN IF k.threw THEN Out(Env, now, [run EXCEPT !.exit = "error"])
     ELSE IF ~pubOk
       THEN Out(env1, now, [run EXCEPT !.exit = "error", !.opened = 1, !.closed = 1])
     ELSE LET run1 == [run EXCEPT !.published = <<OrderMessage(sc.request, requestId, sc.tradeIndex, 1)>>,
                                  !.opened = 1, !.closed = 1,
                                  !.fetched = responses]
              kinds == innerKinds(responses)
          IN Out(orderScriptDispatch(IF sc.filters
                                       THEN filterResponsesByRequestId(kinds, requestId)
                                       ELSE kinds,
                                     env1, sc),
                 now + w, run1)

\* what the relays hold for trade key 1 when the script fetches
OrderScriptReplies(sc, rid) ==
  {Msg("order", Reply(sc.ok, rid, NoId, 0, 0)),
   Msg("cant-do", Reply("cant-do", rid, NoId, 0, 0)),
   Msg("notice", Reply("notice", rid, NoId, 0, 0))}
    \cup (IF HadIdentity THEN {Msg("order", Reply("pay-invoice", OtherId, NoId, 1, 0))} ELSE {})

OrderScript ==
  /\ JournalOpen
  /\ \E sc \in OrderScripts, generated \in Generated, pubOk \in BOOLEAN,
        requestId \in RequestIds :
       \E w \in (IF pubOk THEN Waits ELSE {0}),
          responses \in (IF pubOk THEN SeqsUpTo2(OrderScriptReplies(sc, requestId))
                                  ELSE {<<>>}) :
         /\ Apply(orderScriptRun(sc, generated, pubOk, w, requestId, responses))
         /\ Journalled

\* ─── scripts/chat.ts: getPeerTradePubkey ───────────────────────────────
\* What one poll finds among the replies to its request: no such order, the order
\* with the peer's trade key, or the order not yet matched with a peer.
PollResults == {"none", "peer", "unmatched"}

\* polls of ORDER_POLL_INTERVAL_MS that fit before ORDER_POLL_TIMEOUT_MS
PollSeqs ==
  UNION {[1..n -> PollResults] : n \in 1..MaxPolls}

\* the while loop: "returned", "threw" (peer key missing) or "deadline"
RECURSIVE pollOrders(_)
pollOrders(polls) ==
  IF polls = <<>> THEN "deadline"
  ELSE IF Head(polls) = "peer" THEN "returned"
  ELSE IF Head(polls) = "unmatched" THEN "threw"
  ELSE pollOrders(Tail(polls))

getPeerTradePubkeyRun(generated, pubOk, w, requestId, polls) ==
  LET k == getOrCreateKeys(seedFile, generated)
      env1 == [Env EXCEPT !.seed = k.seed]
      run == [BlankRun EXCEPT !.script = "chat", !.isNew = k.isNew,
                              !.mnemonic = k.mnemonic, !.at = now]
  IN IF k.threw THEN Out(Env, now, [run EXCEPT !.exit = "error"])
     ELSE IF ~pubOk THEN Out(env1, now, [run EXCEPT !.exit = "error", !.opened = 1])
     ELSE LET run1 == [run EXCEPT !.published = <<OrderMessage("orders", requestId, NoId, 1)>>,
                                  !.opened = 1, !.shown = polls]
              end == pollOrders(polls)
          IN Out(env1, now + w,
                 IF end = "returned" THEN [run1 EXCEPT !.closed = 1]
                 ELSE IF end = "threw" THEN [run1 EXCEPT !.exit = "error"]
                 ELSE [run1 EXCEPT !.exit = "error", !.closed = 1])

GetPeerTradePubkey ==
  \E generated \in Generated, pubOk \in BOOLEAN, requestId \in RequestIds :
    \E w \in (IF pubOk THEN Waits ELSE {0}),
       polls \in (IF pubOk THEN PollSeqs ELSE {<<>>}) :
      Apply(getPeerTradePubkeyRun(generated, pubOk, w, requestId, polls))

\* ─── scripts/restore-session.ts ────────────────────────────────────────────
\* A reply older than this was sent before the request of the current run.
OldAge == StaleSeconds + 1
Fresh(r) == r.age < OldAge

\* What fetchGiftWraps may return after the last-trade-index request, the coordinator
\* holding index c: its answer to this run (absent when c = 0 or when it did not
\* arrive), and, for an identity that existed before (had), answers it gave to
\* earlier runs, which carry indexes up to c.
RestoreReplies(c, had) ==
  {Reply("last-trade-index", NoId, n, 0, 0) : n \in {c} \ {NoId}}
    \cup {Reply("last-trade-index", NoId, NoId, 0, 0)}
    \cup (IF had THEN {Reply("last-trade-index", NoId, n, OldAge, 0) : n \in 1..c} ELSE {})

IsIndexAnswer(r) == r.action = "last-trade-index" /\ r.trade_index # NoId

\* the coordinator answers a request at most once
RestoreFetches(c, had) ==
  {rs \in SeqsUpTo2(RestoreReplies(c, had)) :
     Cardinality({i \in DOMAIN rs : IsIndexAnswer(rs[i]) /\ Fresh(rs[i])}) <= 1}

\* the trade index in the coordinator's answer to this run's request, NoId if none came
CoordinatorAnswer(responses) ==
  LET fresh == {i \in DOMAIN responses : IsIndexAnswer(responses[i]) /\ Fresh(responses[i])}
  IN IF fresh = {} THEN NoId ELSE responses[CHOOSE i \in fresh : TRUE].trade_index

\* the loop over the fetched replies: the last matching reply wins
RECURSIVE lastTradeIndex(_, _)
lastTradeIndex(responses, lastIndex) ==
  IF responses = <<>> THEN lastIndex
  ELSE lastTradeIndex(Tail(responses),
                      IF IsIndexAnswer(Head(responses)) THEN Head(responses).trade_index
                      ELSE lastIndex)

\* What fetchGiftWraps may return after the restore-session request: nothing, the
\* session data, or the coordinator's refusal.
RestoreSessionFetches ==
  {<<>>, <<Msg("restore", Reply("restore-session", NoId, NoId, 0, 0))>>,
   <<Msg("cant-do", Reply("cant-do", NoId, NoId, 0, 0))>>}

\* the run reads the clock only to stamp its audit entry
restoreSessionRun(mnemonic, generated, pubOk1, responses, pubOk2, responses2) ==
  LET k == IF Truthy(mnemonic)
             THEN importMnemonic(seedFile, mnemonic) @@ [isNew |-> FALSE]
             ELSE getOrCreateKeys(seedFile, generated)
      env1 == [Env EXCEPT !.seed = k.seed]
      cursor == loadTradeKeyState(fileExists, stateFile)
      run == [BlankRun EXCEPT !.script = "restore-session", !.isNew = k.isNew,
                              !.mnemonic = k.mnemonic,
                              !.imported = Truthy(mnemonic), !.cursorBefore = cursor]
      indexMsg == RestoreMessage("last-trade-index", 1)
  IN IF k.threw THEN Out(Env, now, [run EXCEPT !.exit = "error"])
     ELSE IF ~pubOk1 THEN Out(env1, now, [run EXCEPT !.exit = "error"])
     ELSE LET lastIndex == lastTradeIndex(responses, 0)
              env2 == IF lastIndex > 0
                        THEN [env1 EXCEPT !.exists = TRUE,
                                          !.file = setTradeIndex(env1.exists, env1.file, lastIndex + 1)]
                        ELSE env1
              run1 == [run EXCEPT !.published = <<indexMsg>>,
                                  !.answer = CoordinatorAnswer(responses),
                                  !.anyAnswer = \E i \in DOMAIN responses : IsIndexAnswer(responses[i])]
          IN IF ~pubOk2 THEN Out(env2, now, [run1 EXCEPT !.exit = "error"])
             ELSE Out(doAuditLog(env2, Entry("restore-session", "success", <<"last_index", lastIndex>>)),
                      now,
                      [run1 EXCEPT !.published = <<indexMsg, RestoreMessage("restore-session", 1)>>,
                                   !.cursorAtRestore = loadTradeKeyState(env2.exists, env2.file),
                                   !.fetched = responses2])

\* --mnemonic values: none, a valid phrase (possibly padded), an invalid phrase
MnemonicArgs == {EmptyStr, Str("legal", FALSE), Str("legal", TRUE), Str("wrong", FALSE)}

RestoreSession ==
  /\ JournalOpen
  /\ \E mnemonic \in MnemonicArgs, generated \in Generated :
       \* a run stopped by an invalid --mnemonic reads no further input
       \E pubOk1 \in (IF Truthy(mnemonic) /\ ~validateMnemonic(trim(mnemonic))
                        THEN {FALSE} ELSE BOOLEAN) :
       \E c \in (IF pubOk1 THEN coordLast..MaxCoordIndex ELSE {coordLast}) :
       \E responses \in (IF pubOk1
                           THEN RestoreFetches(c, HadIdentity \/ Truthy(mnemonic))
                           ELSE {<<>>}),
          pubOk2 \in (IF pubOk1 THEN BOOLEAN ELSE {FALSE}) :
       \E responses2 \in (IF pubOk2 THEN RestoreSessionFetches ELSE {<<>>}) :
         /\ ApplyRun(restoreSessionRun(mnemonic, generated, pubOk1, responses, pubOk2,
                                       responses2))
         /\ coordLast' = c
         /\ Journalled

\* ─── scripts/trade-status.ts ───────────────────────────────────────────────
\* a reply of an earlier session is at or beyond the staleness threshold
EarlierAges == {StaleSeconds, StaleSeconds + 1}

\* the inner message kinds of the replies a run displays
RECURSIVE Actions(_)
Actions(responses) ==
  IF responses = <<>> THEN <<>>
  ELSE <<Head(responses).action>> \o Actions(Tail(responses))

\* .sort((a, b) => b.timestamp - a.timestamp)[0]: the youngest reply, the first of equals
mostRecent(responses) ==
  LET youngest == CHOOSE a \in {responses[i].age : i \in DOMAIN responses} :
                    \A i \in DOMAIN responses : a <= responses[i].age
      first == CHOOSE i \in DOMAIN responses :
                 /\ responses[i].age = youngest
                 /\ \A j \in DOMAIN responses : responses[j].age = youngest => i <= j
  IN responses[first]

\* the request goes out without a request_id, so no reply carries one
StatusAllReplies(rid) ==
  {Reply("restore-session", NoId, NoId, 0, 0), Reply("cant-do", NoId, NoId, 0, 0)}
    \cup (IF HadIdentity
            THEN {Reply("restore-session", r, NoId, age, 0) :
                    r \in {NoId, OtherId}, age \in EarlierAges}
            ELSE {})

tradeStatusAllRun(generated, pubOk, w, requestId, responses) ==
  LET k == getOrCreateKeys(seedFile, generated)
      env1 == [Env EXCEPT !.seed = k.seed]
      run == [BlankRun EXCEPT !.script = "trade-status-all", !.isNew = k.isNew,
                              !.mnemonic = k.mnemonic]
  IN IF k.threw THEN Out(Env, now, [run EXCEPT !.exit = "error"])
     ELSE IF ~pubOk THEN Out(env1, now, [run EXCEPT !.exit = "error"])
     ELSE LET run1 == [run EXCEPT !.published = <<RestoreMessage("restore-session", 1)>>]
              filtered == filterResponsesByRequestId(responses, requestId)
              restoreResponses == SelectSeq(responses, LAMBDA r : r.action = "restore-session")
          IN IF filtered = <<>> /\ restoreResponses # <<>>
               THEN LET age == mostRecent(restoreResponses).age
                    IN Out(env1, now + w,
                           [run1 EXCEPT !.fellBack = TRUE, !.ageChecked = TRUE,
                                        !.warned = (age > StaleSeconds), !.shownAge = age,
                                        !.shown = <<mostRecent(restoreResponses).action>>])
               ELSE Out(env1, now + w, [run1 EXCEPT !.shown = Actions(filtered)])

TradeStatusAll ==
  \E generated \in Generated, pubOk \in BOOLEAN, requestId \in RequestIds :
    \E w \in (IF pubOk THEN Waits ELSE {0}),
       responses \in (IF pubOk THEN SeqsUpTo2(StatusAllReplies(requestId)) ELSE {<<>>}) :
      Apply(tradeStatusAllRun(generated, pubOk, w, requestId, responses))

OrderIds == {"order-a"}

StatusOrderReplies(rid, orderId) ==
  {Reply("orders", rid, NoId, 0, 0), Reply("cant-do", rid, NoId, 0, 0)}
    \cup (IF HadIdentity
            THEN {Reply("orders", OtherId, NoId, age, 0) : age \in EarlierAges}
                   \cup {ReplyAbout(orderId, "pay-invoice", OtherId, StaleSeconds + 1)}
            ELSE {})

tradeStatusOrderRun(orderId, generated, pubOk, w, requestId, responses) ==
  LET k == getOrCreateKeys(seedFile, generated)
      env1 == [Env EXCEPT !.seed = k.seed]
      run == [BlankRun EXCEPT !.script = "trade-status-order", !.isNew = k.isNew,
                              !.mnemonic = k.mnemonic]
  IN IF k.threw THEN Out(Env, now, [run EXCEPT !.exit = "error"])
     ELSE IF ~pubOk THEN Out(env1, now, [run EXCEPT !.exit = "error"])
     ELSE LET run1 == [run EXCEPT !.published = <<OrderMessage("orders", requestId, NoId, 1)>>]
              filtered == filterResponsesByRequestId(responses, requestId)
              orderResponses == SelectSeq(responses,
                                          LAMBDA r : r.action = "orders" \/ r.id = orderId)
          IN IF filtered = <<>> /\ orderResponses # <<>>
               THEN Out(env1, now + w,
                        [run1 EXCEPT !.fellBack = TRUE,
                                     !.shownAge = mostRecent(orderResponses).age,
                                     !.shown = <<mostRecent(orderResponses).action>>])
               ELSE Out(env1, now + w, [run1 EXCEPT !.shown = Actions(filtered)])

TradeStatusOrder ==
  \E orderId \in OrderIds, generated \in Generated, pubOk \in BOOLEAN, requestId \in RequestIds :
    \E w \in (IF pubOk THEN Waits ELSE {0}),
       responses \in (IF pubOk THEN SeqsUpTo2(StatusOrderReplies(requestId, orderId)) ELSE {<<>>}) :
      Apply(tradeStatusOrderRun(orderId, generated, pubOk, w, requestId, responses))

\* ─── Time and configuration ────────────────────────────────────────────────
Tick ==
  /\ now < MaxNow
  /\ now' = now + 1
  /\ UNCHANGED <<seedFile, fileExists, stateFile, audit, limits, lastRun, sentUnder,
                 lastRecorded, procs, coordLast>>

Limits(maxTrade, maxDaily, maxTrades, cooldown) ==
  [max_trade_amount_sats |-> maxTrade, max_daily_volume_sats |-> maxDaily,
   max_trades_per_day |-> maxTrades, cooldown_seconds |-> cooldown]

LimitConfigs == {Limits(2, 3, 2, 1), Limits(2000, 3000, 3, 0)}

ProcIds == {1, 2}
IdleProc == [pc |-> "idle", index |-> 0, existing |-> EmptyObj, got |-> <<>>, recorded |-> FALSE]
NoProcs == [p \in ProcIds |-> IdleProc]

Init ==
  /\ now = 0
  /\ seedFile = NoSeed
  /\ fileExists = FALSE
  /\ stateFile = EmptyObj
  /\ audit = <<>>
  /\ limits \in LimitConfigs
  /\ lastRun = BlankRun
  /\ sentUnder = [i \in 1..(MaxIndex + 1) |-> 0]
  /\ lastRecorded = NoRecord
  /\ procs = NoProcs
  /\ coordLast = 0

\* ─── lib/safety.ts: validateOrderPrice ─────────────────────────────────────
\* The orders auto-trade hands over: premium as listed, or none
PricedOrders ==
  [fiat_amount : {2}, amount : {1}, fiat_code : {"usd"},
   premium : {Undefined, Val(50)}]
MaxPremiumDeviations == {5}

Magnitude(n) == IF n < 0 THEN 0 - n ELSE n

\* |deviationPercent| <= maxPremiumDeviation for orderPrice = fiat_amount / (amount / 1e8)
withinDeviation(order, marketPrice, maxPremiumDeviation) ==
  Magnitude(order.fiat_amount * SatsPerBtc - marketPrice * order.amount)
    <= (maxPremiumDeviation * marketPrice * order.amount) \div 100

validateOrderPriceBlocking(order, maxPremiumDeviation, answer) ==
  LET marketPrice == fetchBtcPrice(answer, order.fiat_code)
  IN [valid |-> marketPrice # Null /\ order.premium # Undefined
                  /\ Magnitude(Num(order.premium)) <= maxPremiumDeviation,
      marketPrice |-> marketPrice, reason |-> Val("blocked")]

\* the result's valid, marketPrice and reason; orderPrice and deviationPercent are
\* only printed
validateOrderPrice(order, maxPremiumDeviation, answer) ==
  LET marketPrice == fetchBtcPrice(answer, order.fiat_code)
  IN IF marketPrice = Null
       THEN [valid |-> TRUE, marketPrice |-> Null,
             reason |-> Val("Could not fetch market price")]
     ELSE IF order.premium # Undefined
       THEN LET valid == Magnitude(Num(order.premium)) <= maxPremiumDeviation
            IN [valid |-> valid, marketPrice |-> marketPrice,
                reason |-> IF valid THEN Undefined ELSE Val("Premium exceeds max deviation")]
     ELSE IF order.amount > 0 /\ order.fiat_amount > 0
       THEN LET valid == withinDeviation(order, Num(marketPrice), maxPremiumDeviation)
            IN [valid |-> valid, marketPrice |-> marketPrice,
                reason |-> IF valid THEN Undefined ELSE Val("Price deviation exceeds max")]
     ELSE [valid |-> TRUE, marketPrice |-> marketPrice, reason |-> Undefined]

ValidateOrderPriceCall ==
  /\ \E order \in PricedOrders, maxPremiumDeviation \in MaxPremiumDeviations,
        answer \in OracleAnswers :
       lastRun' = [BlankRun EXCEPT !.script = "validateOrderPrice", !.at = now,
                     !.net = [fn |-> "validate", order |-> order, answer |-> answer,
                              result |-> validateOrderPrice(order, maxPremiumDeviation,
                                                            answer)]]
  /\ UNCHANGED <<now, seedFile, fileExists, stateFile, audit, limits, sentUnder,
                 lastRecorded, procs, coordLast>>

\* create-order's price step next to validateOrderPrice
NextPrice ==
  \/ CreateOrder
  \/ ValidateOrderPriceCall
  \/ Tick

SpecPrice == Init /\ [][NextPrice]_vars

Next ==
  \/ CreateOrder
  \/ TakeOrder
  \/ Tick

Spec == Init /\ [][Next]_vars

\* keys.ts getNextTradeKeys as auto-trade calls it, after getOrCreateKeys
GetNextTradeKeysCall ==
  /\ loadTradeKeyState(fileExists, stateFile) <= MaxIndex
  /\ \E generated \in Generated :
       LET k == getOrCreateKeys(seedFile, generated)
           tk == getNextTradeKeys(k.mnemonic, fileExists, stateFile)
           run == [BlankRun EXCEPT !.script = "getNextTradeKeys", !.isNew = k.isNew,
                                   !.mnemonic = k.mnemonic,
                                   !.cursorBefore = loadTradeKeyState(fileExists, stateFile),
                                   !.allocated = <<tk.index>>]
       IN IF k.threw \/ tk.threw
            THEN Apply(Out(IF k.threw THEN Env ELSE [Env EXCEPT !.seed = k.seed],
                           now, [run EXCEPT !.exit = "error", !.allocated = <<>>]))
            ELSE Apply(Out([Env EXCEPT !.seed = k.seed, !.exists = tk.exists, !.file = tk.file],
                           now, run))

NextRestore ==
  \/ RestoreSession
  \/ GetNextTradeKeysCall

SpecRestore == Init /\ [][NextRestore]_vars

NextStatus ==
  \/ TradeStatusAll
  \/ TradeStatusOrder
  \/ Tick

SpecStatus == Init /\ [][NextStatus]_vars

NextOrder ==
  \/ OrderScript
  \/ GetPeerTradePubkey
  \/ Tick

SpecOrder == Init /\ [][NextOrder]_vars

\* ─── lib/nostr.ts: the relay client ────────────────────────────────────────
\* The repository holds two implementations of the client: lib/nostr.ts, which
\* builds seal and wrap itself, and a second nostr.ts built on nostr-tools' nip59.
Impls == {"manual", "nip59"}

\* Which of the configured relays accept an event: validateConfig refuses an empty list.
RelayAnswers == UNION {[1..n -> BOOLEAN] : n \in 1..MaxRelays}

CountOf(accepts, b) == Cardinality({i \in DOMAIN accepts : accepts[i] = b})

\* pool.publish([relay], event) returns an array holding one promise per relay.
\* nip59 client: awaits every relay's promise (allSettled), warns per rejection,
\* throws when none fulfilled.
\* manual client: Promise.any over the arrays themselves, which are not promises, so
\* it fulfils with the first array; the relays' promises are awaited by nobody.
publishGiftWrap(impl, accepts) ==
  IF impl = "nip59"
    THEN [threw |-> CountOf(accepts, TRUE) = 0,
          warnings |-> CountOf(accepts, FALSE),
          unawaited |-> 0]
    ELSE [threw |-> Len(accepts) = 0, warnings |-> 0, unawaited |-> Len(accepts)]

PublishCall ==
  /\ \E impl \in Impls, accepts \in RelayAnswers :
       lastRun' = [BlankRun EXCEPT !.script = "sendGiftWrap", !.at = now,
                     !.net = [fn |-> "publish", impl |-> impl, accepts |-> accepts,
                              out |-> publishGiftWrap(impl, accepts)]]
  /\ UNCHANGED <<now, seedFile, fileExists, stateFile, audit, limits, sentUnder,
                 lastRecorded, procs, coordLast>>

\* ── the query window of a fetch ──
Max2(a, b) == IF a >= b THEN a ELSE b

\* windows the callers pass: the scripts' 5 and 10 minutes, the default, 3 days, 4 days
SinceMinutes == {5, 10, DefaultSinceMinutes, 4320, 5760}

\* fetchGiftWraps: the `since` of its filter, the clock reading t
fetchGiftWrapsSince(impl, t, sinceMinutes) ==
  IF impl = "nip59"
    THEN t - Max2(sinceMinutes * 60, ThreeDays)
    ELSE t - sinceMinutes * 60

\* fetchP2PMessages: the `since` of its filter
fetchP2PMessagesSince(t) == t - ThreeDays

\* ── tweaked timestamps ──
\* Math.floor(Math.random() * twoDays): both ends of its range and values between
RandomOffsets == {0, 1, TwoDays \div 2, TwoDays - 1}

getTweakedTimestampWithoutMargin(t, offset) == t - offset

getTweakedTimestamp(t, offset) == t - offset - TweakMargin

\* ── keys, NIP-44 and JSON ──
\* private keys by name; the public key of k is <<"pub", k>>
Keys == {"trade", "identity", "mostro", "ephemeral", "stranger", "peer", "shared"}
getPublicKey(k) == <<"pub", k>>

\* ECDH: both ends derive the same key from their private and the other's public key
getConversationKey(privkey, pubkey) == {privkey, pubkey[2]}

\* a string is either the JSON text of one value or not JSON at all
stringify(v) == [json |-> TRUE, value |-> <<v>>]
NotJson == [json |-> FALSE, value |-> <<>>]
\* JSON.parse: throws on text that is not JSON
parse(str) == IF str.json THEN [threw |-> FALSE, value |-> str.value[1]]
              ELSE [threw |-> TRUE, value |-> 0]

nip44Encrypt(senderPrivkey, receiverPubkey, content) ==
  [key |-> getConversationKey(senderPrivkey, receiverPubkey), plain |-> content]
\* decrypt throws unless the conversation key is the one the text was encrypted under
nip44Decrypt(receiverPrivkey, senderPubkey, ciphertext) ==
  IF getConversationKey(receiverPrivkey, senderPubkey) = ciphertext.key
    THEN [threw |-> FALSE, text |-> ciphertext.plain]
    ELSE [threw |-> TRUE, text |-> NotJson]

sha256(str) == [hashOf |-> str]
NullSignature == [signer |-> "nobody", over |-> <<>>]
schnorrSign(hash, privkey) == [signer |-> privkey, over |-> <<hash>>]
schnorrVerify(sig, hash, pubkey) ==
  /\ sig.signer # "nobody"
  /\ sig.signer = pubkey[2]
  /\ sig.over = <<hash>>

\* ── sendGiftWrap: building the wrap ──
\* rumor content is the JSON of [message, signature]
RumorContent(message, signature) ==
  stringify([array |-> TRUE, message |-> message, signature |-> signature])
\* rumor content that is a bare message, not wrapped in an array
BareContent(message) ==
  stringify([array |-> FALSE, message |-> message, signature |-> NullSignature])

Event(kind, createdAt, pubkey, content) ==
  [kind |-> kind, created_at |-> createdAt, pubkey |-> pubkey, content |-> content]

\* identityKey is "" when the caller passes none; signature is what the caller passes
\* (every script passes null). The manual client signs the message itself and seals
\* with the identity key when given; the nip59 client puts the caller's signature in
\* the rumor and lets nostr-tools draw the timestamps of seal and wrap.
createGiftWrap(impl, message, signature, tradeKey, identityKey, mostroPubkey, t, off1, off2) ==
  LET sealKey == IF impl = "manual" /\ identityKey # "" THEN identityKey ELSE tradeKey
      computed == IF impl = "manual"
                    THEN schnorrSign(sha256(stringify(message)), tradeKey)
                    ELSE signature
      rumor == Event(1, t, getPublicKey(tradeKey), RumorContent(message, computed))
      sealAt == IF impl = "manual" THEN getTweakedTimestamp(t, off1) ELSE t - off1
      wrapAt == IF impl = "manual" THEN getTweakedTimestamp(t, off2) ELSE t - off2
      seal == Event(13, sealAt, getPublicKey(sealKey),
                    nip44Encrypt(sealKey, mostroPubkey, stringify(rumor)))
      wrap == Event(1059, wrapAt, getPublicKey("ephemeral"),
                    nip44Encrypt("ephemeral", mostroPubkey, stringify(seal)))
  IN [rumor |-> rumor, seal |-> seal, wrap |-> wrap]

\* ── fetchGiftWraps: unwrapping a batch ──
\* one event of the batch: the result it yields, or nothing when a step throws
unwrapEvent(event, recipient) ==
  LET d1 == nip44Decrypt(recipient, event.pubkey, event.content)
      p1 == parse(d1.text)
  IN IF d1.threw \/ p1.threw THEN <<>>
     ELSE LET seal == p1.value
              d2 == nip44Decrypt(recipient, seal.pubkey, seal.content)
              p2 == parse(d2.text)
          IN IF d2.threw \/ p2.threw THEN <<>>
             ELSE LET rumor == p2.value
                      p3 == parse(rumor.content)
                  IN IF p3.threw THEN <<>>
                     ELSE <<[message |-> p3.value.message,
                             signature |-> IF p3.value.array THEN p3.value.signature
                                           ELSE NullSignature,
                             timestamp |-> rumor.created_at]>>

RECURSIVE fetchGiftWrapsStoppingAtFailure(_, _)
fetchGiftWrapsStoppingAtFailure(events, recipient) ==
  IF events = <<>> THEN <<>>
  ELSE IF unwrapEvent(Head(events), recipient) = <<>> THEN <<>>
  ELSE unwrapEvent(Head(events), recipient)
         \o fetchGiftWrapsStoppingAtFailure(Tail(events), recipient)

RECURSIVE fetchGiftWraps(_, _)
fetchGiftWraps(events, recipient) ==
  IF events = <<>> THEN <<>>
  ELSE unwrapEvent(Head(events), recipient) \o fetchGiftWraps(Tail(events), recipient)

\* ── what the relays may return for a `#p` query of the trade key ──
\* an event built by sender for receiver, each layer well-formed or not
Wire(n, wrapTo, sealTo, rumorJson, contentJson, arrayed) ==
  LET message == Msg("order", Reply("pay-invoice", n, NoId, 0, 0))
      content == IF ~contentJson THEN NotJson
                 ELSE IF arrayed THEN RumorContent(message, NullSignature)
                 ELSE BareContent(message)
      rumor == Event(1, n, getPublicKey("mostro"), content)
      seal == Event(13, n, getPublicKey("mostro"),
                    nip44Encrypt("mostro", getPublicKey(sealTo),
                                 IF rumorJson THEN stringify(rumor) ELSE NotJson))
  IN Event(1059, n, getPublicKey("ephemeral"),
           nip44Encrypt("ephemeral", getPublicKey(wrapTo), stringify(seal)))

\* n tells the events apart
WireEvents ==
  {Wire(n, "trade", "trade", TRUE, TRUE, TRUE) : n \in 1..2}
    \cup {Wire(3, "trade", "trade", TRUE, TRUE, FALSE),   \* bare content
          Wire(4, "stranger", "trade", TRUE, TRUE, TRUE), \* wrap for another key
          Wire(5, "trade", "stranger", TRUE, TRUE, TRUE), \* seal for another key
          Wire(6, "trade", "trade", FALSE, TRUE, TRUE),   \* rumor is not JSON
          Wire(7, "trade", "trade", TRUE, FALSE, TRUE)}   \* content is not JSON

Batches == UNION {[1..n -> WireEvents] : n \in 0..MaxBatch}

\* ── P2P chat: fetchP2PMessages ──
\* the event id: hash of the serialized signed fields
getEventHash(e) == sha256(stringify(<<e.pubkey, e.created_at, e.kind, e.content>>))

\* finalizeEvent: id and signature by privkey, pubkey its public key
finalizeEvent(kind, createdAt, content, privkey) ==
  LET e == [kind |-> kind, created_at |-> createdAt, content |-> content,
            pubkey |-> getPublicKey(privkey)]
  IN e @@ [id |-> getEventHash(e), sig |-> schnorrSign(getEventHash(e), privkey)]

verifyEvent(e) == e.id = getEventHash(e) /\ schnorrVerify(e.sig, e.id, e.pubkey)

\* one wrapper of the batch: the chat message it yields, or nothing
unwrapP2PWithoutVerify(event, sharedKey) ==
  LET d == nip44Decrypt(sharedKey, event.pubkey, event.content)
      p0 == parse(d.text)
  IN IF d.threw \/ p0.threw THEN <<>>
     ELSE <<[senderPubkey |-> p0.value.pubkey, content |-> p0.value.content,
             timestamp |-> p0.value.created_at]>>

unwrapP2P(event, sharedKey) ==
  LET d == nip44Decrypt(sharedKey, event.pubkey, event.content)
      p0 == parse(d.text)
  IN IF d.threw \/ p0.threw THEN <<>>
     ELSE IF ~verifyEvent(p0.value) THEN <<>>
     ELSE <<[senderPubkey |-> p0.value.pubkey, content |-> p0.value.content,
             timestamp |-> p0.value.created_at]>>

RECURSIVE fetchP2PMessages(_, _)
fetchP2PMessages(events, sharedKey) ==
  IF events = <<>> THEN <<>>
  ELSE unwrapP2P(Head(events), sharedKey) \o fetchP2PMessages(Tail(events), sharedKey)

\* a wrapper as sendP2PMessage builds it, to the shared key wrapTo
P2PWrapper(inner, wrapTo) ==
  Event(1059, inner.created_at, getPublicKey("ephemeral"),
        nip44Encrypt("ephemeral", getPublicKey(wrapTo), stringify(inner)))

\* what the relays may hold under the shared pubkey: the peer's message, a message
\* signed by another key in the peer's name, a message altered after signing, a
\* wrapper for another key, a wrapper whose plaintext is not JSON
P2PWire ==
  {P2PWrapper(finalizeEvent(1, 1, 1, "peer"), "shared")}
    \cup {P2PWrapper([finalizeEvent(1, 3, 3, "stranger") EXCEPT !.pubkey = getPublicKey("peer")],
                     "shared"),
          P2PWrapper([finalizeEvent(1, 4, 4, "peer") EXCEPT !.content = 5], "shared"),
          P2PWrapper(finalizeEvent(1, 6, 6, "peer"), "stranger"),
          Event(1059, 7, getPublicKey("ephemeral"),
                nip44Encrypt("ephemeral", getPublicKey("shared"), NotJson))}

P2PBatches == UNION {[1..n -> P2PWire] : n \in 0..MaxBatch}

\* ── the calls ──
NetFrame ==
  UNCHANGED <<now, seedFile, fileExists, stateFile, audit, limits, sentUnder,
              lastRecorded, procs, coordLast>>

\* the observation a call of the relay client or of a builder leaves
NetRun(fn, net) == [BlankRun EXCEPT !.script = fn, !.at = now, !.net = net]

FetchWindowCall ==
  \E impl \in Impls, sinceMinutes \in SinceMinutes :
    (lastRun' = NetRun("fetchGiftWraps",
            [fn |-> "since", impl |-> impl, sinceMinutes |-> sinceMinutes,
             since |-> fetchGiftWrapsSince(impl, now, sinceMinutes)]) /\ NetFrame)

FetchP2PWindowCall ==
  (lastRun' = NetRun("fetchP2PMessages", [fn |-> "since-p2p", since |-> fetchP2PMessagesSince(now)]) /\ NetFrame)

FetchGiftWrapsCall ==
  \E events \in Batches :
    (lastRun' = NetRun("fetchGiftWraps",
            [fn |-> "unwrap", events |-> events,
             results |-> fetchGiftWraps(events, "trade")]) /\ NetFrame)

Messages == {OrderMessage("new-order", 1, 1, 1), OrderMessage("cancel", 1, NoId, 1)}

\* sendGiftWrap as the scripts call it, followed by the recipient's fetchGiftWraps
RoundTripCall ==
  \E impl \in Impls, message \in Messages, identityKey \in {"", "identity"},
     off1 \in RandomOffsets, off2 \in RandomOffsets :
    LET sent == createGiftWrap(impl, message, NullSignature, "trade", identityKey,
                               getPublicKey("mostro"), now, off1, off2)
    IN (lastRun' = NetRun("sendGiftWrap",
               [fn |-> "roundtrip", impl |-> impl, message |-> message,
                rumorPubkey |-> sent.rumor.pubkey,
                rumorSignature |-> sent.rumor.content.value[1].signature,
                rumorAt |-> sent.rumor.created_at, sealAt |-> sent.seal.created_at,
                wrapAt |-> sent.wrap.created_at,
                results |-> fetchGiftWraps(<<sent.wrap>>, "mostro")]) /\ NetFrame)

\* sendP2PMessage: the inner event keeps the clock, the wrapper is tweaked
SendP2PMessageCall ==
  \E offset \in RandomOffsets :
    (lastRun' = NetRun("sendP2PMessage",
            [fn |-> "p2p", innerAt |-> now, wrapAt |-> getTweakedTimestamp(now, offset)]) /\ NetFrame)

FetchP2PMessagesCall ==
  \E events \in P2PBatches :
    (lastRun' = NetRun("fetchP2PMessages",
            [fn |-> "p2p-unwrap", events |-> events,
             messages |-> fetchP2PMessages(events, "shared")]) /\ NetFrame)

NextNostr ==
  \/ PublishCall
  \/ FetchP2PMessagesCall
  \/ FetchWindowCall
  \/ FetchP2PWindowCall
  \/ FetchGiftWrapsCall
  \/ RoundTripCall
  \/ SendP2PMessageCall
  \/ Tick

SpecNostr == Init /\ [][NextNostr]_vars

\* ─── chat: reading the messages of an order ────────────────────────────────
\* displayMessages: a message is labelled You when its sender is our trade key and
\* Peer otherwise
displayMessages(messages, ourTradePubkey) ==
  [i \in DOMAIN messages |->
     [label |-> IF messages[i].senderPubkey = ourTradePubkey THEN "You" ELSE "Peer",
      senderPubkey |-> messages[i].senderPubkey,
      content |-> messages[i].content]]

\* What the relays may hold under the shared pubkey, which every wrapper names in
\* the clear: the wrappers of P2PWire, our own message, and a message a third party
\* signed with its own key and wrapped to the shared pubkey
ChatWire ==
  P2PWire \cup {P2PWrapper(finalizeEvent(1, 8, 8, "trade"), "shared"),
                P2PWrapper(finalizeEvent(1, 9, 9, "stranger"), "shared")}

ChatBatches == UNION {[1..n -> ChatWire] : n \in 0..MaxBatch}

\* chat --read: fetchP2PMessages under the shared key, then displayMessages
ChatReadCall ==
  \E events \in ChatBatches :
    (lastRun' = NetRun("chat",
                       [fn |-> "chat", events |-> events,
                        shown |-> displayMessages(fetchP2PMessages(events, "shared"),
                                                  getPublicKey("trade"))])
       /\ NetFrame)

NextChat ==
  \/ ChatReadCall
  \/ SendP2PMessageCall
  \/ Tick

SpecChat == Init /\ [][NextChat]_vars

\* ─── lib/protocol.ts: message builders ─────────────────────────────────────
OrderKinds == {"buy", "sell"}

buildNewOrderPayload(params) ==
  [order |->
     [kind |-> params.kind, status |-> "pending",
      amount |-> Coalesce(params.amount, Val(0)),
      fiat_code |-> toUpperCase(params.fiat_code),
      fiat_amount |-> params.fiat_amount,
      min_amount |-> Coalesce(params.min_amount, Null),
      max_amount |-> Coalesce(params.max_amount, Null),
      payment_method |-> params.payment_method,
      premium |-> Coalesce(params.premium, Val(0)),
      buyer_invoice |-> Coalesce(params.buyer_invoice, Null),
      created_at |-> 0]]

\* create-order.ts parseArgs: what the command line can give
CreateOrderOpts ==
  [kind : OrderKinds, currency : {"usd", "USD"}, fiat_amount : FiatAmounts,
   payment_method : {"bank"}, premium : {2}, amount : {0, 5},
   min_amount : {Undefined, Val(1), Val(2)}, max_amount : {Undefined, Val(1), Val(2)},
   invoice : {Undefined, Val("user@ln.tips")}]

\* create-order.ts main: the payload it builds from its options
createOrderPayload(opts) ==
  LET isRange == opts.min_amount # Undefined /\ opts.max_amount # Undefined
  IN buildNewOrderPayload(
       [kind |-> opts.kind, fiat_code |-> opts.currency,
        fiat_amount |-> IF isRange THEN 0 ELSE opts.fiat_amount,
        amount |-> Val(opts.amount),
        min_amount |-> opts.min_amount, max_amount |-> opts.max_amount,
        payment_method |-> opts.payment_method, premium |-> Val(opts.premium),
        buyer_invoice |-> opts.invoice])

BuildNewOrderCall ==
  \E opts \in CreateOrderOpts :
    (lastRun' = NetRun("buildNewOrderPayload",
            [fn |-> "new-order", by |-> "create-order", opts |-> opts,
             order |-> createOrderPayload(opts).order]) /\ NetFrame)

\* a string or a number JavaScript treats as true in a condition
TruthyStr(x) == x.tag = "value" /\ x.v[1] # ""
TruthyNum(x) == x.tag = "value" /\ x.v[1] # 0

\* buildOrderMessage: a field holding Undefined is a key the object does not have
buildOrderMessage(action, orderId, requestId, tradeIndex, payload) ==
  [c \in {"order"} |->
     [version |-> 1, action |-> action,
      id |-> IF TruthyStr(orderId) THEN orderId ELSE Undefined,
      request_id |-> requestId,
      trade_index |-> tradeIndex,
      payload |-> IF Nullish(payload) THEN Undefined ELSE payload]]

\* take-order.ts parseArgs: --amount "0" is a non-empty string, so it is parsed
TakeOrderOpts ==
  [action : TakeActions, invoice : {Undefined, Val("lnbc1")},
   amount : {Undefined, Val(0), Val(15)}]

buildTakePayloadInvoiceFirst(action, invoice, amount) ==
  IF TruthyStr(invoice)
    THEN Val([payment_request |-> <<Null, invoice, Coalesce(amount, Null)>>])
    ELSE IF TruthyNum(amount) THEN Val([amount |-> Num(amount)]) ELSE Null

buildTakePayload(action, invoice, amount) ==
  IF action = "take-buy"
    THEN IF TruthyNum(amount) THEN Val([amount |-> Num(amount)]) ELSE Null
    ELSE IF TruthyStr(invoice)
           THEN Val([payment_request |-> <<Null, invoice, Coalesce(amount, Null)>>])
           ELSE IF TruthyNum(amount) THEN Val([amount |-> Num(amount)]) ELSE Null

BuildTakeOrderCall ==
  \E opts \in TakeOrderOpts, requestId \in {1, 2} :
    (lastRun' = NetRun("buildTakePayload",
            [fn |-> "take-order", opts |-> opts,
             message |-> buildOrderMessage(opts.action, Val("order-1"), Val(requestId), Val(1),
                                           buildTakePayload(opts.action, opts.invoice,
                                                            opts.amount))]) /\ NetFrame)

\* filterResponsesByRequestId on what a fetch can return: replies to this request,
\* to another one, without request_id, and under a category the client does not know
FetchedMessages ==
  {Msg("order", Reply("canceled", 1, NoId, 0, 0)),
   Msg("cant-do", Reply("cant-do", 1, NoId, 0, 0)),
   Msg("order", Reply("canceled", OtherId, NoId, 1, 0)),
   Msg("order", Reply("new-order", NoId, NoId, 1, 0)),
   Msg("notice", Reply("canceled", 1, NoId, 0, 0))}

FilterResponsesCall ==
  \E responses \in SeqsUpTo2(FetchedMessages), requestId \in {1, OtherId} :
    (lastRun' = NetRun("filterResponsesByRequestId",
                       [fn |-> "filter", responses |-> responses, requestId |-> requestId,
                        kept |-> filterResponsesByRequestId(responses, requestId)])
       /\ NetFrame)

\* auto-trade.ts executeMarketMaker: the buy and the sell order of a strategy
MarketMakerStrategies ==
  [currency : {"USD"}, fiat_amount : FiatAmounts, payment_method : {"bank"},
   buy_premium : {0 - 1}, sell_premium : {2},
   min_amount : {Undefined, Val(1)}, max_amount : {Undefined, Val(2)}]

marketMakerPayload(strategy, kind) ==
  buildNewOrderPayload(
    [kind |-> kind, fiat_code |-> strategy.currency,
     fiat_amount |-> strategy.fiat_amount, amount |-> Undefined,
     min_amount |-> strategy.min_amount, max_amount |-> strategy.max_amount,
     payment_method |-> strategy.payment_method,
     premium |-> Val(IF kind = "buy" THEN strategy.buy_premium ELSE strategy.sell_premium),
     buyer_invoice |-> Undefined])

BuildMarketMakerCall ==
  \E strategy \in MarketMakerStrategies :
    (lastRun' = NetRun("buildNewOrderPayload",
                       [fn |-> "market-maker", strategy |-> strategy,
                        buy |-> marketMakerPayload(strategy, "buy").order,
                        sell |-> marketMakerPayload(strategy, "sell").order])
       /\ NetFrame)

\* buildRestoreMessage and buildDmMessage, with the fields of buildOrderMessage's
\* object they never set held as absent keys
buildRestoreMessage(action, payload) ==
  [c \in {"restore"} |->
     [version |-> 1, action |-> action, id |-> Undefined, request_id |-> Undefined,
      trade_index |-> Undefined,
      payload |-> IF Nullish(payload) THEN Undefined ELSE payload]]

buildDmMessage(text) ==
  [c \in {"dm"} |->
     [version |-> 1, action |-> "send-dm", id |-> Undefined, request_id |-> Undefined,
      trade_index |-> Undefined, payload |-> Val([text_message |-> text])]]

\* the message each script builds for its request
ScriptMessages ==
  {[script |-> sc.name,
    message |-> buildOrderMessage(sc.request, Val("order-1"), Val(1),
                                  IF sc.tradeIndex = NoId THEN Undefined
                                                          ELSE Val(sc.tradeIndex),
                                  IF sc.request = "send-dm"
                                    THEN Val([text_message |-> "hello"])
                                    ELSE Undefined)] : sc \in OrderScripts}
    \cup {[script |-> "create-order",
           message |-> buildOrderMessage("new-order", Undefined, Val(1), Val(1),
                                         Val(createOrderPayload(opts)))] :
            opts \in {o \in CreateOrderOpts : o.min_amount = Undefined /\ o.amount = 0}}
    \cup {[script |-> "restore-session", message |-> buildRestoreMessage(action, Undefined)] :
            action \in {"restore-session", "last-trade-index"}}
    \cup {[script |-> "buildDmMessage", message |-> buildDmMessage("hello")]}

BuildMessageCall ==
  \E built \in ScriptMessages :
    (lastRun' = NetRun(built.script, [fn |-> "message", message |-> built.message])
       /\ NetFrame)

\* ─── lib/protocol.ts: parseOrderEvent ──────────────────────────────────────
\* parseInt(str, 10) on the numerals the order events and the arguments of the model
\* carry
parseInt(str) ==
  CASE str = "0" -> 0
    [] str = "1" -> 1
    [] str = "5" -> 5
    [] str = "6" -> 6
    [] str = "5000" -> 5000
    [] str = "-3" -> 0 - 3
    [] str = "100" -> 100

\* tagMap.get(name): the values of the last tag with that name
RECURSIVE tagMapGet(_, _)
tagMapGet(tags, name) ==
  IF tags = <<>> THEN Undefined
  ELSE IF tags[Len(tags)][1] = name THEN Val(Tail(tags[Len(tags)]))
  ELSE tagMapGet(SubSeq(tags, 1, Len(tags) - 1), name)

\* tagMap.get(name)?.[0]
firstOf(tags, name) ==
  LET values == tagMapGet(tags, name)
  IN IF values = Undefined \/ Num(values) = <<>> THEN Undefined ELSE Val(Num(values)[1])

\* tagMap.get(name)?.[0] ?? fallback
firstOr(tags, name, fallback) == Num(Coalesce(firstOf(tags, name), Val(fallback)))

parseOrderEvent(tags) ==
  [id |-> firstOr(tags, "d", ""),
   kind |-> firstOr(tags, "k", "buy"),
   currency |-> firstOr(tags, "f", ""),
   status |-> firstOr(tags, "s", "pending"),
   amount |-> parseInt(firstOr(tags, "amt", "0")),
   fiat_amount |-> firstOr(tags, "fa", "0"),
   payment_methods |-> Num(Coalesce(tagMapGet(tags, "pm"), Val(<<>>))),
   premium |-> parseInt(firstOr(tags, "premium", "0")),
   rating |-> firstOf(tags, "rating"),
   network |-> firstOr(tags, "network", "mainnet"),
   layer |-> firstOr(tags, "layer", "lightning"),
   platform |-> firstOr(tags, "y", "mostro"),
   expires_at |-> IF firstOf(tags, "expires_at") # Undefined
                       /\ Num(firstOf(tags, "expires_at")) # ""
                    THEN Val(parseInt(Num(firstOf(tags, "expires_at"))))
                    ELSE Undefined]

\* The tag lists of order events: each tag present or not, f in either case, one
\* list with the d tag repeated
OptionalTag(tag) == {<<>>, <<tag>>}
OrderEventTags ==
  {<<<<"d", "order-1">>>> \o k \o f \o amt \o <<<<"fa", "10-20">>>> \o pm \o premium :
     k \in OptionalTag(<<"k", "sell">>),
     f \in {<<>>, <<<<"f", "usd">>>>, <<<<"f", "USD">>>>},
     amt \in OptionalTag(<<"amt", "5000">>),
     pm \in OptionalTag(<<"pm", "bank", "cash">>),
     premium \in OptionalTag(<<"premium", "-3">>)}
    \cup {<<<<"d", "order-1">>, <<"s", "pending">>, <<"expires_at", "100">>,
            <<"d", "order-2">>>>}

ParseOrderEventCall ==
  \E tags \in OrderEventTags :
    (lastRun' = NetRun("parseOrderEvent",
                       [fn |-> "parse", tags |-> tags, parsed |-> parseOrderEvent(tags),
                        again |-> parseOrderEvent(tags)])
       /\ NetFrame)

\* ─── scripts/rate-user.ts ──────────────────────────────────────────────────
Numerals == {"0", "1", "5", "6", "-3", "100", "5000"}
NaN == [tag |-> "NaN", v |-> <<>>]
\* parseInt(str, 10) of any string: NaN when it does not start with a numeral
parseIntOrNaN(str) == IF str \in Numerals THEN Val(parseInt(str)) ELSE NaN

\* a comparison with NaN is false
LessThan(a, b) == a # NaN /\ b # NaN /\ Num(a) < Num(b)

\* --rating as typed: absent (or empty), numerals in and out of range, not a number
RatingArgs == {"", "0", "1", "5", "6", "-3", "abc"}

\* parseArgs of rate-user with --order-id given: process.exit(1), or the rating
rateUserParseArgs(ratingArg) ==
  IF ratingArg = "" THEN [exit |-> TRUE, rating |-> NaN]
  ELSE LET rating == parseIntOrNaN(ratingArg)
       IN IF LessThan(rating, Val(1)) \/ LessThan(Val(5), rating)
            THEN [exit |-> TRUE, rating |-> rating]
            ELSE [exit |-> FALSE, rating |-> rating]

\* rate-user up to sendGiftWrap: the message it publishes, if it gets there
RateUserCall ==
  \E ratingArg \in RatingArgs :
    LET opts == rateUserParseArgs(ratingArg)
    IN (lastRun' = NetRun("rate-user",
                          [fn |-> "rate-user", ratingArg |-> ratingArg, exit |-> opts.exit,
                           published |->
                             IF opts.exit THEN <<>>
                             ELSE <<buildOrderMessage("rate-user", Val("order-1"), Val(1),
                                                      Undefined,
                                                      Val([rating_user |-> opts.rating]))>>])
          /\ NetFrame)

NextProtocol ==
  \/ RateUserCall
  \/ BuildNewOrderCall
  \/ ParseOrderEventCall
  \/ BuildMessageCall
  \/ BuildMarketMakerCall
  \/ BuildTakeOrderCall
  \/ FilterResponsesCall
  \/ Tick

SpecProtocol == Init /\ [][NextProtocol]_vars

\* ─── The safety and key modules called directly ────────────────────────────
SatsAmounts == 1..MaxSats

CheckLimitsCall ==
  \E satsAmount \in SatsAmounts :
    Apply(Out(Env, now,
              [BlankRun EXCEPT !.script = "checkLimits", !.at = now, !.checked = TRUE,
                               !.amount = satsAmount,
                               !.check = checkLimits(limits, satsAmount, fileExists, stateFile, now)]))

RecordTradeCall ==
  /\ fileExists /\ Has(stateFile, "daily_trades")
       => Lookup(stateFile.daily_trades, todayKey(now)) < MaxRecords
  /\ \E satsAmount \in SatsAmounts, observe \in BOOLEAN, offsetChange \in OffsetChanges :
       LET env1 == doRecordTrade(Env, satsAmount, now, offsetChange)
           run == [BlankRun EXCEPT !.script = "recordTrade", !.at = now, !.amount = satsAmount]
       IN Apply(Out([env1 EXCEPT !.threw = FALSE,
                                 !.recorded = IF observe THEN @ ELSE lastRecorded],
                    now,
                    IF env1.threw THEN [run EXCEPT !.exit = "error"] ELSE run))

\* restore-session calls setTradeIndex(lastIndex + 1) with lastIndex > 0
SetTradeIndexCall ==
  \E lastIndex \in 1..MaxCoordIndex :
    Apply(Out([Env EXCEPT !.exists = TRUE,
                          !.file = setTradeIndex(fileExists, stateFile, lastIndex + 1)],
              now,
              [BlankRun EXCEPT !.script = "setTradeIndex",
                               !.cursorBefore = loadTradeKeyState(fileExists, stateFile)]))

NextLib ==
  \/ CheckLimitsCall
  \/ RecordTradeCall
  \/ GetNextTradeKeysCall
  \/ SetTradeIndexCall
  \/ Tick

SpecLib == Init /\ [][NextLib]_vars

\* ─── recordTrade over more than a week ─────────────────────────────────────
\* The client is not run for a week or a week and a day, once.
SleepDays == {KeepDays, KeepDays + 1}

Sleep ==
  /\ now <= MaxNow
  /\ \E days \in SleepDays : now' = now + days * DayLen
  /\ UNCHANGED <<seedFile, fileExists, stateFile, audit, limits, lastRun, sentUnder,
                 lastRecorded, procs, coordLast>>

NextPrune ==
  \/ RecordTradeCall
  \/ GetNextTradeKeysCall
  \/ Sleep
  \/ Tick

SpecPrune == Init /\ [][NextPrune]_vars

\* ─── Two client processes on the same trade-state.json ─────────────────────
\* Each file-system call is one step; the processes are not coordinated.
RaceFrame ==
  UNCHANGED <<now, seedFile, audit, limits, lastRun, sentUnder, lastRecorded, coordLast>>

\* getNextTradeKeys: loadTradeKeyState()
RaceLoad(p) ==
  /\ procs[p].pc = "idle"
  /\ Len(procs[p].got) < MaxCalls
  /\ procs' = [procs EXCEPT ![p].pc = "loaded",
                            ![p].index = loadTradeKeyState(fileExists, stateFile)]
  /\ UNCHANGED <<fileExists, stateFile>>
  /\ RaceFrame

\* saveTradeKeyState: readFileSync of the existing file
RaceReadExisting(p) ==
  /\ procs[p].pc = "loaded"
  /\ procs' = [procs EXCEPT ![p].pc = "merging",
                            ![p].existing = readExisting(fileExists, stateFile)]
  /\ UNCHANGED <<fileExists, stateFile>>
  /\ RaceFrame

\* saveTradeKeyState: writeFileSync, and getNextTradeKeys returns the index
RaceWrite(p) ==
  /\ procs[p].pc = "merging"
  /\ fileExists' = TRUE
  /\ stateFile' = mergeTradeKeyState(procs[p].existing, procs[p].index + 1)
  /\ procs' = [procs EXCEPT ![p].pc = "idle", ![p].got = Append(@, procs[p].index),
                            ![p].existing = EmptyObj]
  /\ RaceFrame

\* recordTrade: loadState()
RaceRecordLoad(p) ==
  /\ procs[p].pc = "idle"
  /\ ~procs[p].recorded
  /\ procs' = [procs EXCEPT ![p].pc = "recording",
                            ![p].existing = loadState(fileExists, stateFile)]
  /\ UNCHANGED <<fileExists, stateFile>>
  /\ RaceFrame

\* recordTrade: the update and saveState(), or the TypeError
RaceRecordSave(p) ==
  /\ procs[p].pc = "recording"
  /\ LET u == updateState(procs[p].existing, 1, now, 0)
     IN /\ fileExists' = (fileExists \/ ~u.threw)
        /\ stateFile' = IF u.threw THEN stateFile ELSE u.state
  /\ procs' = [procs EXCEPT ![p].pc = "idle", ![p].recorded = TRUE, ![p].existing = EmptyObj]
  /\ RaceFrame

NextRace ==
  \E p \in ProcIds :
    \/ RaceLoad(p)
    \/ RaceReadExisting(p)
    \/ RaceWrite(p)
    \/ RaceRecordLoad(p)
    \/ RaceRecordSave(p)

SpecRace == Init /\ [][NextRace]_vars

\* ─── scripts/auto-trade.ts ─────────────────────────────────────────────────
\* The strategy files: a DCA strategy, market-maker strategies of either size, a
\* limit strategy that sets no min_amount, max_amount or min_rating, and a disabled
\* one.
\* fiat_amount 0 stands for the field a limit strategy does not have.
Strategy(type, fiat_amount, enabled) ==
  [type |-> type, fiat_amount |-> fiat_amount, action |-> "take-sell", max_premium |-> 10,
   enabled |-> enabled]
Strategies ==
  {Strategy("market-maker", fiat_amount, TRUE) : fiat_amount \in FiatAmounts}
    \cup {Strategy("dca", 1, TRUE), Strategy("limit", 0, TRUE), Strategy("dca", 1, FALSE)}

\* config.max_premium_deviation as DEFAULT_CONFIG sets it
DefaultMaxPremiumDeviation == 5

\* The pending orders executeLimit gets from parseOrderEvent, fiat_amount after
\* parseFloat
LimitOrder(fiat_amount, premium) ==
  [fiat_amount |-> fiat_amount, amount |-> 1, fiat_code |-> "usd", premium |-> premium]
\* what fetchOrderEvents returns: nothing, one order, or a dearer order before a
\* cheaper one
OrderBooks ==
  {<<>>, <<LimitOrder(1, 8)>>, <<LimitOrder(2, 50)>>,
   <<LimitOrder(1, 8), LimitOrder(2, 0)>>}

AutoRun(script, dryRun) ==
  [BlankRun EXCEPT !.script = script, !.dryRun = dryRun, !.at = now,
                   !.cursorBefore = loadTradeKeyState(fileExists, stateFile)]

\* `for (const resp of responses)` of executeDCA: recordTrade for every new-order
RECURSIVE dcaDispatch(_, _, _, _)
dcaDispatch(responses, env, fiat_amount, t) ==
  IF responses = <<>> \/ env.threw THEN env
  ELSE dcaDispatch(Tail(responses),
                   IF Head(responses).action = "new-order"
                     THEN doRecordTrade(env, fiat_amount, t, 0)
                     ELSE env,
                   fiat_amount, t)

\* A faulty executeDCA that allocates the trade key before it looks at dryRun
executeDCAAllocatingFirst(strategy, dryRun, generated, pubOk, w, requestId, responses) ==
  LET k == getOrCreateKeys(seedFile, generated)
      tk == getNextTradeKeys(k.mnemonic, fileExists, stateFile)
      limitCheck == checkLimits(limits, strategy.fiat_amount, fileExists, stateFile, now)
  IN Out([Env EXCEPT !.seed = k.seed, !.exists = tk.exists, !.file = tk.file], now,
         [AutoRun("auto-trade-dca", dryRun) EXCEPT !.checked = TRUE, !.check = limitCheck,
                                                   !.amount = strategy.fiat_amount,
                                                   !.fiat = strategy.fiat_amount,
                                                   !.allocated = <<tk.index>>])

executeDCA(strategy, dryRun, generated, pubOk, w, requestId, responses) ==
  LET limitCheck == checkLimits(limits, strategy.fiat_amount, fileExists, stateFile, now)
      run == [AutoRun("auto-trade-dca", dryRun) EXCEPT
                !.checked = TRUE, !.check = limitCheck,
                !.amount = strategy.fiat_amount, !.fiat = strategy.fiat_amount]
  IN IF limitCheck.threw THEN Out(Env, now, [run EXCEPT !.exit = "error"])
     ELSE IF ~limitCheck.allowed THEN Out(Env, now, run)
     ELSE IF dryRun
       THEN Out(doAuditLog(Env, Entry("auto-trade-dca", "success", <<"dry-run">>)), now, run)
     ELSE LET k == getOrCreateKeys(seedFile, generated)
              tk == getNextTradeKeys(k.mnemonic, fileExists, stateFile)
              env1 == [Env EXCEPT !.seed = k.seed, !.exists = tk.exists, !.file = tk.file]
              run1 == [run EXCEPT !.isNew = k.isNew, !.mnemonic = k.mnemonic,
                                  !.allocated = <<tk.index>>]
          IN IF k.threw THEN Out(Env, now, [run EXCEPT !.exit = "error"])
             ELSE IF tk.threw
               THEN Out([Env EXCEPT !.seed = k.seed], now, [run EXCEPT !.exit = "error"])
             ELSE IF ~pubOk THEN Out(env1, now, [run1 EXCEPT !.exit = "error"])
             ELSE LET run2 == [run1 EXCEPT !.published =
                                 <<OrderMessage("new-order", requestId, tk.index, tk.index)>>]
                      t2 == now + w
                      env2 == dcaDispatch(responses, env1, strategy.fiat_amount, t2)
                  IN IF env2.threw
                       THEN Out([env2 EXCEPT !.threw = FALSE], t2, [run2 EXCEPT !.exit = "error"])
                       ELSE Out(doAuditLog(env2, Entry("auto-trade-dca", "success", NoReason)),
                                t2, run2)

\* orders.filter(...) with only max_premium set, then the stable sort by premium:
\* the first order of the least premium
bestMatch(orders, max_premium) ==
  LET matching == SelectSeq(orders, LAMBDA o : ~(o.premium > max_premium))
      least == CHOOSE i \in 1..Len(matching) :
                 /\ \A j \in 1..Len(matching) : matching[i].premium <= matching[j].premium
                 /\ \A j \in 1..(i - 1) : matching[j].premium > matching[i].premium
  IN IF matching = <<>> THEN <<>> ELSE <<matching[least]>>

executeLimit(strategy, dryRun, generated, pubOk, requestId, orders, answer) ==
  LET matching == bestMatch(orders, strategy.max_premium)
      run0 == AutoRun("auto-trade-limit", dryRun)
  IN IF matching = <<>> THEN Out(Env, now, run0)
     ELSE LET best == matching[1]
              fiatAmount == best.fiat_amount
              limitCheck == checkLimits(limits, fiatAmount, fileExists, stateFile, now)
              run == [run0 EXCEPT !.checked = TRUE, !.check = limitCheck,
                                  !.amount = fiatAmount, !.fiat = fiatAmount]
              priceCheck == validateOrderPrice(
                              [fiat_amount |-> fiatAmount, amount |-> best.amount,
                               fiat_code |-> best.fiat_code, premium |-> Val(best.premium)],
                              DefaultMaxPremiumDeviation, answer)
          IN IF limitCheck.threw THEN Out(Env, now, [run EXCEPT !.exit = "error"])
             ELSE IF ~limitCheck.allowed THEN Out(Env, now, run)
             ELSE IF ~priceCheck.valid THEN Out(Env, now, run)
             ELSE IF dryRun THEN Out(Env, now, run)
             ELSE LET k == getOrCreateKeys(seedFile, generated)
                      tk == getNextTradeKeys(k.mnemonic, fileExists, stateFile)
                      env1 == [Env EXCEPT !.seed = k.seed, !.exists = tk.exists,
                                          !.file = tk.file]
                      run1 == [run EXCEPT !.isNew = k.isNew, !.mnemonic = k.mnemonic,
                                          !.allocated = <<tk.index>>]
                  IN IF k.threw THEN Out(Env, now, [run EXCEPT !.exit = "error"])
                     ELSE IF tk.threw
                       THEN Out([Env EXCEPT !.seed = k.seed], now, [run EXCEPT !.exit = "error"])
                     ELSE IF ~pubOk THEN Out(env1, now, [run1 EXCEPT !.exit = "error"])
                     ELSE LET run2 == [run1 EXCEPT !.published =
                                         <<OrderMessage(strategy.action, requestId, tk.index,
                                                        tk.index)>>]
                              env2 == doRecordTrade(env1, fiatAmount, now, 0)
                          IN IF env2.threw
                               THEN Out([env2 EXCEPT !.threw = FALSE], now,
                                        [run2 EXCEPT !.exit = "error"])
                               ELSE Out(doAuditLog(env2, Entry("auto-trade-limit", "success",
                                                               NoReason)),
                                        now, run2)

\* sent: how many of the two sendGiftWrap calls succeed before one throws
executeMarketMaker(strategy, dryRun, generated, sent, requestId) ==
  LET limitCheck == checkLimits(limits, strategy.fiat_amount * 2, fileExists, stateFile, now)
      run == [AutoRun("auto-trade-market-maker", dryRun) EXCEPT
                !.checked = TRUE, !.check = limitCheck,
                !.amount = strategy.fiat_amount * 2, !.fiat = strategy.fiat_amount * 2]
  IN IF limitCheck.threw THEN Out(Env, now, [run EXCEPT !.exit = "error"])
     ELSE IF ~limitCheck.allowed THEN Out(Env, now, run)
     ELSE IF dryRun THEN Out(Env, now, run)
     ELSE LET k == getOrCreateKeys(seedFile, generated)
              buy == getNextTradeKeys(k.mnemonic, fileExists, stateFile)
              env1 == [Env EXCEPT !.seed = k.seed, !.exists = buy.exists, !.file = buy.file]
              buyMsg == OrderMessage("new-order", requestId, buy.index, buy.index)
              sell == getNextTradeKeys(k.mnemonic, env1.exists, env1.file)
              env2 == [env1 EXCEPT !.exists = sell.exists, !.file = sell.file]
              sellMsg == OrderMessage("new-order", requestId, sell.index, sell.index)
              run1 == [run EXCEPT !.isNew = k.isNew, !.mnemonic = k.mnemonic]
          IN IF k.threw THEN Out(Env, now, [run EXCEPT !.exit = "error"])
             ELSE IF buy.threw
               THEN Out([Env EXCEPT !.seed = k.seed], now, [run EXCEPT !.exit = "error"])
             ELSE IF sent = 0
               THEN Out(env1, now, [run1 EXCEPT !.exit = "error", !.allocated = <<buy.index>>])
             ELSE IF sent = 1
               THEN Out(env2, now, [run1 EXCEPT !.exit = "error", !.published = <<buyMsg>>,
                                                !.allocated = <<buy.index, sell.index>>])
             ELSE LET run2 == [run1 EXCEPT !.published = <<buyMsg, sellMsg>>,
                                           !.allocated = <<buy.index, sell.index>>]
                      env3 == doRecordTrade(env2, strategy.fiat_amount, now, 0)
                      env4 == IF env3.threw THEN env3
                              ELSE doRecordTrade(env3, strategy.fiat_amount, now, 0)
                  IN IF env4.threw
                       THEN Out([env4 EXCEPT !.threw = FALSE], now, [run2 EXCEPT !.exit = "error"])
                       ELSE Out(doAuditLog(env4, Entry("auto-trade-market-maker", "success",
                                                       NoReason)),
                                now, run2)

\* main: a disabled strategy returns at once, otherwise the switch on strategy.type
autoTradeMain(strategy, dryRun, generated, sent, w, requestId, responses, orders, answer) ==
  IF ~strategy.enabled THEN Out(Env, now, AutoRun("auto-trade", dryRun))
  ELSE IF strategy.type = "dca"
    THEN executeDCA(strategy, dryRun, generated, sent > 0, w, requestId, responses)
  ELSE IF strategy.type = "limit"
    THEN executeLimit(strategy, dryRun, generated, sent > 0, requestId, orders, answer)
  ELSE executeMarketMaker(strategy, dryRun, generated, sent, requestId)

\* the replies under the fresh trade key of a DCA run
DCAReplies(rid) == {Reply("new-order", rid, NoId, 0, 0), Reply("cant-do", rid, NoId, 0, 0)}

\* a run reads its inputs as far as it gets: a disabled strategy, a dry run and a
\* run stopped by the limit check publish nothing and fetch no replies
AutoTrade ==
  /\ JournalOpen
  /\ loadTradeKeyState(fileExists, stateFile) <= MaxIndex
  /\ \E strategy \in Strategies, dryRun \in BOOLEAN, generated \in Generated,
        requestId \in RequestIds :
       LET sends == strategy.enabled /\ ~dryRun
           limit == strategy.enabled /\ strategy.type = "limit"
       IN \E sent \in (IF ~sends THEN {0}
                       ELSE IF strategy.type = "market-maker" THEN 0..2 ELSE 0..1),
             orders \in (IF limit THEN OrderBooks ELSE {<<>>}),
             answer \in (IF limit THEN {OracleThrew, OracleRates({"USD", "VES"})}
                                  ELSE {OracleThrew}) :
            \E w \in (IF strategy.type = "dca" /\ sent > 0 THEN Waits ELSE {0}),
               responses \in (IF strategy.type = "dca" /\ sent > 0
                                THEN SeqsUpTo2(DCAReplies(requestId)) ELSE {<<>>}) :
              /\ Apply(autoTradeMain(strategy, dryRun, generated, sent, w, requestId,
                                     responses, orders, answer))
              /\ Journalled

\* create-order as the first use of the data directory
FirstCreateOrder == ~fileExists /\ audit = <<>> /\ CreateOrder

\* auto-trade, after create-order or not: create-order's recordTrade gives the file
\* its counters
NextAuto ==
  \/ AutoTrade
  \/ FirstCreateOrder
  \/ Tick

SpecAuto == Init /\ [][NextAuto]_vars

\* the scripts that check the limits and record their trades
NextTrades ==
  \/ AutoTrade
  \/ CreateOrder
  \/ Tick

SpecTrades == Init /\ [][NextTrades]_vars

\* ─── Properties ────────────────────────────────────────────────────────────
\* the persisted state read the way the specification describes it: an absent
\* counter is an empty one
cursor == loadTradeKeyState(fileExists, stateFile)
recordedVolume(day) ==
  IF fileExists /\ Has(stateFile, "daily_volume") THEN Lookup(stateFile.daily_volume, day) ELSE 0
recordedTrades(day) ==
  IF fileExists /\ Has(stateFile, "daily_trades") THEN Lookup(stateFile.daily_trades, day) ELSE 0
InCooldown(t) ==
  /\ fileExists /\ Has(stateFile, "last_trade_at")
  /\ t - stateFile.last_trade_at < limits.cooldown_seconds
ShouldDeny(amount, t) ==
  \/ amount > limits.max_trade_amount_sats
  \/ recordedVolume(todayKey(t)) + amount > limits.max_daily_volume_sats
  \/ recordedTrades(todayKey(t)) >= limits.max_trades_per_day
  \/ InCooldown(t)

\* a step of the named script or library call (a clock step changes only `now`)
Ran(script) ==
  /\ lastRun'.script = script
  /\ <<seedFile, fileExists, stateFile, audit, lastRun, sentUnder, lastRecorded>>'
       # <<seedFile, fileExists, stateFile, audit, lastRun, sentUnder, lastRecorded>>

\* C1: checkLimits returns allowed=false exactly when the amount exceeds
\* max_trade_amount_sats, or today's recorded volume plus the amount exceeds
\* max_daily_volume_sats, or today's recorded trade count has reached
\* max_trades_per_day, or the cooldown since last_trade_at has not passed; in every
\* other case it returns allowed=true; and it never modifies the persisted state.
C1_CheckLimitsDecides ==
  [][Ran("checkLimits") =>
       /\ ~lastRun'.check.threw
       /\ lastRun'.check.allowed = ~ShouldDeny(lastRun'.amount, now)
       /\ UNCHANGED <<fileExists, stateFile>>]_vars

\* C2: after a completed recordTrade(s) that found daily_volume recorded for its UTC
\* date, every later checkLimits(x) on that date with daily_volume + s + x above
\* max_daily_volume_sats returns allowed=false.
C2_LimitMonotonicity ==
  [][(/\ Ran("checkLimits")
      /\ lastRecorded # NoRecord
      /\ lastRecorded.day = todayKey(now)
      /\ lastRecorded.pre + lastRecorded.s + lastRun'.amount > limits.max_daily_volume_sats)
       => (~lastRun'.check.threw /\ ~lastRun'.check.allowed)]_vars

\* C2, its case: a checkLimits call whose amount is within the per-trade limit is
\* denied for the day's volume after a recordTrade of the same date
C2_DeniedAfterRecord ==
  /\ lastRun.script = "checkLimits"
  /\ lastRecorded # NoRecord
  /\ lastRecorded.day = todayKey(lastRun.at)
  /\ lastRun.amount <= limits.max_trade_amount_sats
  /\ lastRecorded.pre + lastRecorded.s + lastRun.amount > limits.max_daily_volume_sats
  /\ ~lastRun.check.allowed
  /\ lastRun.check.reason # NoReason
  /\ lastRun.check.reason[1] = "volume"

\* C3: a run that published a new-trade request called checkLimits first and was
\* allowed by it.
C3_CheckedBeforePublish ==
  \A i \in DOMAIN lastRun.published :
    lastRun.published[i].action \in NewTradeActions
      => (lastRun.checked /\ lastRun.check.allowed)

\* C4: a create-order run denied by checkLimits appends exactly one audit entry, with
\* result "rejected" and the denial reason as details, publishes nothing, and leaves
\* trade-state.json (cursor, daily counters, last_trade_at) as it was.
C4_DeniedCreateOrder ==
  [][(Ran("create-order") /\ lastRun'.checked /\ ~lastRun'.check.threw /\ ~lastRun'.check.allowed)
       => /\ audit' = Append(audit, Entry("create-order", "rejected", lastRun'.check.reason))
          /\ lastRun'.published = <<>>
          /\ sentUnder' = sentUnder
          /\ UNCHANGED <<fileExists, stateFile>>]_vars

\* C4, its case: a create-order run denied for the day's volume, with counters on file
C4_DeniedForVolume ==
  /\ lastRun.script = "create-order"
  /\ lastRun.checked /\ ~lastRun.check.allowed
  /\ lastRun.check.reason # NoReason
  /\ lastRun.check.reason[1] = "volume"
  /\ fileExists /\ recordedVolume(todayKey(lastRun.at)) > 0
  /\ audit # <<>>
  /\ audit[Len(audit)].result = "rejected"

\* C5: no two new-trade requests of this client are sent under the same trade-key index.
C5_FreshIndexPerTrade ==
  \A i \in DOMAIN sentUnder : sentUnder[i] <= 1

\* C6: the cursor never decreases and never drops below 1, and each getNextTradeKeys
\* call returns the current cursor and increases it by exactly one.
C6_CursorMonotonic ==
  [][/\ loadTradeKeyState(fileExists', stateFile') >= cursor
     /\ loadTradeKeyState(fileExists', stateFile') >= 1
     /\ (Ran("getNextTradeKeys") /\ lastRun'.exit = "ok")
          => /\ lastRun'.allocated = <<cursor>>
             /\ loadTradeKeyState(fileExists', stateFile') = cursor + 1]_vars

\* C7: two processes interleaving getNextTradeKeys never receive the same index, and
\* once no call is in flight the cursor has advanced by the number of calls made.
AllGot == procs[1].got \o procs[2].got
NoCallInFlight == \A p \in ProcIds : procs[p].pc \notin {"loaded", "merging"}
OnlyKeyCalls == \A p \in ProcIds : ~procs[p].recorded /\ procs[p].pc # "recording"
C7_AtomicIncrement ==
  OnlyKeyCalls =>
    /\ \A i, j \in DOMAIN AllGot : i # j => AllGot[i] # AllGot[j]
    /\ NoCallInFlight => cursor = 1 + Len(AllGot)

\* C8 as stated: once the seed file exists no operation changes its contents.
C8_SeedNeverChanges ==
  [][seedFile.exists => seedFile' = seedFile]_vars

\* C8, amended: getOrCreateKeys never changes an existing seed and returns it with
\* isNew=false, and generates and saves a mnemonic only when no seed exists; an
\* existing seed is replaced only by importMnemonic (restore-session --mnemonic) with
\* a valid phrase, which stores that phrase trimmed.
C8_SeedKeptUnlessImported ==
  [][/\ (seedFile.exists /\ seedFile' # seedFile)
          => /\ Ran("restore-session") /\ lastRun'.imported
             /\ validateMnemonic(lastRun'.mnemonic)
             /\ seedFile' = saveMnemonic(lastRun'.mnemonic)
     /\ ((Ran("restore-session") \/ Ran("getNextTradeKeys")) /\ ~lastRun'.imported)
          => IF seedFile.exists
               THEN /\ seedFile' = seedFile
                    /\ ~lastRun'.isNew
                    /\ lastRun'.mnemonic = loadMnemonic(seedFile)
               ELSE /\ lastRun'.isNew
                    /\ validateMnemonic(lastRun'.mnemonic)
                    /\ seedFile' = saveMnemonic(lastRun'.mnemonic)]_vars

\* C8, its case: an imported seed is on file and a later getOrCreateKeys returned it
C8_StoredSeedReturned ==
  /\ lastRun.script = "getNextTradeKeys"
  /\ seedFile.exists /\ seedFile.content = Str("legal", FALSE)
  /\ ~lastRun.isNew
  /\ lastRun.mnemonic = seedFile.content

\* C9: a restore-session run that issued its restore-session request had set the
\* cursor to n + 1 when the coordinator answered its last-trade-index request with n,
\* and had left the cursor unchanged when no last-trade-index answer was received.
C9_CursorFromCoordinator ==
  (lastRun.script = "restore-session" /\ Len(lastRun.published) = 2)
    => /\ lastRun.answer # NoId => lastRun.cursorAtRestore = lastRun.answer + 1
       /\ ~lastRun.anyAnswer => lastRun.cursorAtRestore = lastRun.cursorBefore

\* C10: a run that fell back to the most recent reply checked that reply's age, and
\* warned when it was older than 30 seconds.
C10_StalenessGuard ==
  lastRun.fellBack
    => /\ lastRun.ageChecked
       /\ lastRun.shownAge > StaleSeconds => lastRun.warned

\* C11: every run of a trading script that sent its request appends exactly one audit
\* entry, whatever the fetch returned: no message, one reply, or several messages.
C11_OneEntryPerRun ==
  [][(\E name \in OrderScriptNames : Ran(name)) /\ lastRun'.published # <<>>
       => Len(audit') = Len(audit) + 1]_vars

\* C12: a run that ends without raising an error has recorded an audit entry, also
\* when no reply came within its wait or every reply carried another request_id.
C12_EndedRunsAreJournalled ==
  [][(\E name \in OrderScriptNames : Ran(name)) /\ lastRun'.exit = "ok"
       /\ lastRun'.published # <<>>
       /\ filterResponsesByRequestId(innerKinds(lastRun'.fetched),
                                     lastRun'.published[1].request_id) = <<>>
       => Len(audit') > Len(audit)]_vars

\* C13: a run that received cant-do from the coordinator records an audit entry with
\* result 'failed', never 'success'; restore-session is one of these runs.
GotCantDo(run) ==
  \E i \in DOMAIN run.fetched : getInnerMessageKind(run.fetched[i]).action = "cant-do"

C13_CantDoIsFailed ==
  [][Ran("restore-session") /\ GotCantDo(lastRun')
       => /\ Len(audit') = Len(audit) + 1
          /\ audit'[Len(audit')].result = "failed"]_vars

\* C14: a fetched message whose top-level category is not recognized is skipped: it
\* is not dispatched as an outcome and leaves no audit entry and no state change.
C14_UnknownMessagesSkipped ==
  [][((\E name \in OrderScriptNames : Ran(name))
       /\ lastRun'.fetched # <<>>
       /\ (\A i \in DOMAIN lastRun'.fetched :
             lastRun'.fetched[i].category \notin KnownCategories))
       => audit' = audit]_vars

\* C15: a relay client that a run created has been closed when the run ends, on
\* every exit path: normal return, early return and throw.
C15_ClientClosedAtExit == lastRun.closed = lastRun.opened

\* C16: sendGiftWrap publishes to every configured relay and succeeds exactly when
\* at least one relay accepts the wrap; rejections by some relays while another
\* accepts are warnings; it fails with an error when no relay accepts.
C16_PublishSucceedsIffAccepted ==
  lastRun.net.fn = "publish"
    => LET accepted == \E i \in DOMAIN lastRun.net.accepts : lastRun.net.accepts[i]
       IN /\ lastRun.net.out.threw = ~accepted
          /\ lastRun.net.out.unawaited = 0
          /\ accepted => lastRun.net.out.warnings = CountOf(lastRun.net.accepts, FALSE)

\* C17: whatever sinceMinutes the caller passes, the `since` of the gift-wrap query is
\* at most now - 3 days, so every wrap with a tweaked created_at is inside the window.
C17_WindowAtLeastThreeDays ==
  lastRun.net.fn = "since" => lastRun.net.since <= lastRun.at - ThreeDays

\* the seals and wraps stamped by getTweakedTimestamp: the manual gift wrap and the
\* P2P chat wrapper
StampedAt ==
  IF lastRun.net.fn = "p2p" THEN {lastRun.net.wrapAt}
  ELSE IF lastRun.net.fn = "roundtrip" /\ lastRun.net.impl = "manual"
    THEN {lastRun.net.sealAt, lastRun.net.wrapAt}
  ELSE {}

InnerAt ==
  IF lastRun.net.fn = "p2p" THEN {lastRun.net.innerAt}
  ELSE IF lastRun.net.fn = "roundtrip" THEN {lastRun.net.rumorAt}
  ELSE {}

seals(e) == e.content.plain.value[1]
rumors(e) == seals(e).content.plain.value[1]
WellFormed(e, r) ==
  /\ e.content.key = {r, e.pubkey[2]}
  /\ e.content.plain.json
  /\ seals(e).content.key = {r, seals(e).pubkey[2]}
  /\ seals(e).content.plain.json
  /\ rumors(e).content.json

\* C19: from a batch mixing valid and malformed wraps fetchGiftWraps yields exactly
\* one result per event that decrypts and parses at every layer, in batch order, and
\* nothing for the others; a failing event does not stop the later ones.
C19_OnlyValidEventsYielded ==
  lastRun.net.fn = "unwrap"
    => LET valid == SelectSeq(lastRun.net.events, LAMBDA e : WellFormed(e, "trade"))
           results == lastRun.net.results
       IN /\ Len(results) = Len(valid)
          /\ \A i \in DOMAIN valid :
               /\ results[i].timestamp = rumors(valid[i]).created_at
               /\ results[i].message = rumors(valid[i]).content.value[1].message

\* C19, its case: a malformed wrap ahead of a valid one, the valid one yielded
C19_ValidAfterMalformed ==
  /\ lastRun.net.fn = "unwrap"
  /\ Len(lastRun.net.events) = 2
  /\ ~WellFormed(lastRun.net.events[1], "trade")
  /\ WellFormed(lastRun.net.events[2], "trade")
  /\ Len(lastRun.net.results) = 1
  /\ lastRun.net.results[1].timestamp = rumors(lastRun.net.events[2]).created_at

\* C20: unwrapping the wrap of message m sent by trade key A with the recipient's
\* private key yields m and the inner signature, and the signature verifies against
\* the hash of the serialized m under A's trade public key.
C20_GiftWrapRoundTrip ==
  lastRun.net.fn = "roundtrip"
    => /\ Len(lastRun.net.results) = 1
       /\ lastRun.net.results[1].message = lastRun.net.message
       /\ schnorrVerify(lastRun.net.results[1].signature,
                        sha256(stringify(lastRun.net.message)), getPublicKey("trade"))

\* C21: every rumor sendGiftWrap publishes carries a non-null inner signature over
\* the hash of the serialized message, made with the trade key whose public key is
\* the rumor's pubkey, also when the caller passes null as the signature argument.
C21_RumorIsSigned ==
  lastRun.net.fn = "roundtrip"
    => /\ lastRun.net.rumorSignature # NullSignature
       /\ schnorrVerify(lastRun.net.rumorSignature,
                        sha256(stringify(lastRun.net.message)), lastRun.net.rumorPubkey)

\* the signed event inside a P2P wrapper
inners(e) == e.content.plain.value[1]
\* a wrapper that decrypts under the shared key, parses, and whose inner event verifies
Authentic(e, sharedKey) ==
  /\ e.content.key = {sharedKey, e.pubkey[2]}
  /\ e.content.plain.json
  /\ inners(e).id = getEventHash(inners(e))
  /\ inners(e).sig.signer = inners(e).pubkey[2]
  /\ inners(e).sig.over = <<inners(e).id>>

C23_NewOrderPayload ==
  lastRun.net.fn = "new-order"
    => LET order == lastRun.net.order
           opts == lastRun.net.opts
       IN /\ order.status = "pending"
          /\ order.fiat_code = "USD"
          /\ opts.min_amount = Undefined => order.min_amount = Null
          /\ opts.max_amount = Undefined => order.max_amount = Null
          /\ opts.invoice = Undefined => order.buyer_invoice = Null
          /\ order.buyer_invoice # Null
               <=> (order.kind = "buy" /\ opts.invoice # Undefined)

\* The payload the claim describes for a take-order run, given when an amount counts
\* as picked.
TakePayloadAsDescribed(opts, picked) ==
  IF opts.action = "take-sell" /\ opts.invoice # Undefined
    THEN Val([payment_request |-> <<Null, opts.invoice, Coalesce(opts.amount, Null)>>])
    ELSE IF picked THEN Val([amount |-> Num(opts.amount)]) ELSE Undefined

\* C24 (as stated): take-sell with an invoice carries payment_request
\* [null, invoice, amount or null]; take-sell without invoice and take-buy carry
\* {amount} when an amount was picked and no payload field otherwise, take-buy
\* ignoring any invoice.
C24_TakePayload ==
  lastRun.net.fn = "take-order"
    => LET opts == lastRun.net.opts
       IN lastRun.net.message["order"].payload
            = TakePayloadAsDescribed(opts, opts.amount # Undefined)

\* C24 (amended): the same, an amount counting as picked when it is not 0; an amount
\* of 0 is kept only inside payment_request.
C24_TakePayloadNonZero ==
  lastRun.net.fn = "take-order"
    => LET opts == lastRun.net.opts
       IN /\ DOMAIN lastRun.net.message = {"order"}
          /\ lastRun.net.message["order"].payload
               = TakePayloadAsDescribed(opts, opts.amount # Undefined /\ Num(opts.amount) # 0)

\* C24 witness: a buy order taken with both an invoice and an amount carries the amount only.
C24_TakeBuyIgnoresInvoice ==
  /\ lastRun.net.fn = "take-order"
  /\ lastRun.net.opts.action = "take-buy"
  /\ lastRun.net.opts.invoice = Val("lnbc1")
  /\ lastRun.net.opts.amount = Val(15)
  /\ lastRun.net.message["order"].payload = Val([amount |-> 15])

\* C25: a failed or empty answer of the price oracle never blocks trading:
\* validateOrderPrice answers valid for every order when there is no market price, and
\* create-order still makes its limit check, on fiat_amount x 1000 sats.
C25_NoPriceNeverBlocks ==
  /\ (lastRun.net.fn = "validate" /\ lastRun.net.answer # OracleRates({"USD", "VES"}))
       => lastRun.net.result.valid
  /\ (lastRun.script = "create-order" /\ lastRun.price = NoPrice)
       => (lastRun.checked /\ lastRun.amount = lastRun.fiat * FallbackSatsPerFiat)

\* C25 witness: an order with a premium far beyond the allowed deviation passes when
\* the request to the oracle failed.
C25_FailedOraclePasses ==
  /\ lastRun.net.fn = "validate"
  /\ lastRun.net.answer = OracleThrew
  /\ lastRun.net.order.premium = Val(50)
  /\ lastRun.net.result.valid
  /\ lastRun.net.result.marketPrice = Null

\* whether a fetched message answers request R
Answers(msg, R) == msg.category \in KnownCategories /\ msg.kind.request_id = R

NewOrdersBuilt ==
  CASE lastRun.net.fn = "new-order" -> {lastRun.net.order}
    [] lastRun.net.fn = "market-maker" -> {lastRun.net.buy, lastRun.net.sell}
    [] OTHER -> {}

SmallOrderInvariants(order) ==
  /\ Num(order.amount) >= 0
  /\ (order.min_amount # Null \/ order.max_amount # Null)
       => /\ order.fiat_amount = 0
          /\ (order.min_amount # Null /\ order.max_amount # Null)
               => Num(order.min_amount) <= Num(order.max_amount)

\* C27: every new-order payload built by create-order and by the auto-trade strategies
\* has amount >= 0 and, whenever min_amount or max_amount is not null, fiat_amount = 0
\* and min_amount <= max_amount.
C27_SmallOrderInvariants ==
  \A order \in NewOrdersBuilt : SmallOrderInvariants(order)

\* the top-level key the claim gives each action
CategoryOf(action) ==
  CASE action = "send-dm" -> "dm"
    [] action \in {"restore-session", "last-trade-index"} -> "restore"
    [] OTHER -> "order"

\* C28: every message a script builds to send has version 1 and exactly one top-level
\* key, the category of its action: 'dm' for send-dm, 'restore' for restore-session
\* and last-trade-index, 'order' for the order actions.
C28_CategoryMatchesAction ==
  lastRun.net.fn \in {"message", "take-order"}
    => \E c \in {"order", "dm", "restore"} :
         /\ DOMAIN lastRun.net.message = {c}
         /\ lastRun.net.message[c].version = 1
         /\ c = CategoryOf(lastRun.net.message[c].action)

\* the first value of the tag of that name in the last parsed event, if it has one
TagGiven(name) == firstOf(lastRun.net.tags, name)

\* C29: parsing the same event twice yields equal records, and for every tag list the
\* record holds d as id, k as kind, s as status, amt as integer sats, fa as the
\* fiat-amount string, every value of pm, premium as a signed integer, and f as the
\* currency code in upper case.
C29_ParsedFields ==
  lastRun.net.fn = "parse"
    => LET parsed == lastRun.net.parsed
       IN /\ lastRun.net.again = parsed
          /\ TagGiven("d") # Undefined => parsed.id = Num(TagGiven("d"))
          /\ TagGiven("k") # Undefined => parsed.kind = Num(TagGiven("k"))
          /\ TagGiven("s") # Undefined => parsed.status = Num(TagGiven("s"))
          /\ TagGiven("amt") # Undefined => parsed.amount = parseInt(Num(TagGiven("amt")))
          /\ TagGiven("fa") # Undefined => parsed.fiat_amount = Num(TagGiven("fa"))
          /\ tagMapGet(lastRun.net.tags, "pm") # Undefined
               => parsed.payment_methods = Num(tagMapGet(lastRun.net.tags, "pm"))
          /\ TagGiven("premium") # Undefined
               => parsed.premium = parseInt(Num(TagGiven("premium")))
          /\ TagGiven("f") # Undefined => parsed.currency = toUpperCase(Num(TagGiven("f")))

\* C30: after every recordTrade that returns, daily_volume and daily_trades hold no
\* entry dated more than 7 days before the current UTC date, both hold an entry for
\* the current date, and the two maps have the same dates as keys.
C30_CountersPruned ==
  (lastRun.script = "recordTrade" /\ lastRun.exit = "ok")
    => LET today == todayKey(lastRun.at)
           daily_volume == stateFile.daily_volume
           daily_trades == stateFile.daily_trades
       IN /\ \A key \in DOMAIN daily_volume \cup DOMAIN daily_trades :
               key >= today - KeepDays
          /\ today \in DOMAIN daily_volume
          /\ today \in DOMAIN daily_trades
          /\ DOMAIN daily_volume = DOMAIN daily_trades

\* C31: a run of auto-trade under --dry-run, whatever the strategy, publishes no
\* event, allocates no trade-key index and leaves trade-state.json as it was: the
\* cursor, the daily counters and last_trade_at are unchanged.
C31_DryRunTradesNothing ==
  [][lastRun'.dryRun =>
       /\ lastRun'.published = <<>>
       /\ lastRun'.allocated = <<>>
       /\ sentUnder' = sentUnder
       /\ fileExists' = fileExists
       /\ stateFile' = stateFile]_vars

\* a dry run that passed the limit check, on a file holding a cursor and counters
C31_DryRunPassedCheck ==
  /\ lastRun.dryRun
  /\ lastRun.check.allowed
  /\ fileExists
  /\ Has(stateFile, "next_trade_index")
  /\ Has(stateFile, "daily_volume")

\* C32: the amount a new-trade run passes to checkLimits is a size in satoshis: the
\* run's fiat amount converted at the oracle price the run obtained, or at the
\* fallback rate when it obtained none; it is never the raw fiat amount.
C32_CheckedAmountInSats ==
  lastRun.checked /\ lastRun.script # "none"
    => lastRun.amount = estimateSats(lastRun.fiat, lastRun.price)

\* C33: rate-user publishes its rate-user message exactly when --rating is an
\* integer from 1 to 5; for every other --rating it exits and publishes nothing.
C33_OnlyRatingsOneToFive ==
  lastRun.net.fn = "rate-user"
    => /\ lastRun.net.published # <<>> <=> lastRun.net.ratingArg \in {"1", "5"}
       /\ lastRun.net.exit <=> lastRun.net.published = <<>>

\* C34: whatever getNextTradeKeys, setTradeIndex and recordTrade have made of
\* trade-state.json, starting from an absent file, checkLimits and recordTrade
\* complete without raising.
C34_CountersToleratedMissing ==
  /\ lastRun.script = "checkLimits" => ~lastRun.check.threw
  /\ lastRun.script = "recordTrade" => lastRun.exit = "ok"

\* the part of trade-state.json each writer owns
CursorPart(exists, file) ==
  IF exists THEN Restrict(file, DOMAIN file \cap {"next_trade_index"}) ELSE EmptyObj
CountersPart(exists, file) ==
  IF exists
    THEN Restrict(file, DOMAIN file \cap {"daily_volume", "daily_trades", "last_trade_at"})
    ELSE EmptyObj

\* C35: in any sequential interleaving of the two writers of trade-state.json,
\* recordTrade leaves next_trade_index as it was, and getNextTradeKeys and
\* setTradeIndex leave daily_volume, daily_trades and last_trade_at as they were.
C35_WritersKeepEachOthersKeys ==
  [][/\ lastRun'.script = "recordTrade"
          => CursorPart(fileExists', stateFile') = CursorPart(fileExists, stateFile)
     /\ lastRun'.script \in {"getNextTradeKeys", "setTradeIndex"}
          => CountersPart(fileExists', stateFile') = CountersPart(fileExists, stateFile)]_vars

\* getNextTradeKeys has run on a file in which recordTrade had counted a trade
C35_CursorMovedBesideCounters ==
  /\ lastRun.script = "getNextTradeKeys"
  /\ lastRun.exit = "ok"
  /\ fileExists
  /\ Has(stateFile, "last_trade_at")
  /\ Has(stateFile, "daily_volume")
  /\ stateFile.daily_volume # EmptyObj
  /\ stateFile.next_trade_index > 1

\* C36: with every trade recorded by a run that passed checkLimits, the volume
\* recorded for the current UTC date never exceeds max_daily_volume_sats.
C36_DailyVolumeWithinLimit ==
  fileExists /\ Has(stateFile, "daily_volume")
    => Lookup(stateFile.daily_volume, todayKey(now)) <= limits.max_daily_volume_sats

\* C37: with every trade recorded by a run that passed checkLimits, the number of
\* trades recorded for the current UTC date never exceeds max_trades_per_day.
C37_DailyTradesWithinLimit ==
  fileExists /\ Has(stateFile, "daily_trades")
    => Lookup(stateFile.daily_trades, todayKey(now)) <= limits.max_trades_per_day

\* C38: a run that published a new-trade request has counted it with recordTrade
\* before it ended, whether or not a confirmation arrived: trade-state.json holds a
\* last_trade_at written during the run.
C38_PublishedIsRecorded ==
  lastRun.published # <<>> /\ lastRun.published[1].action \in NewTradeActions
    => /\ fileExists
       /\ Has(stateFile, "last_trade_at")
       /\ stateFile.last_trade_at >= lastRun.at

\* C39: the last-trade-index and restore-session requests of restore-session carry
\* the generated request_id, and a cursor the run sets comes from the coordinator's
\* answer to this run (answer + 1), never from a message an earlier run left on
\* the relays.
C39_RestoreUsesRequestId ==
  lastRun.script = "restore-session"
    => /\ \A i \in DOMAIN lastRun.published : lastRun.published[i].request_id # NoId
       /\ lastRun.cursorAtRestore # 0 /\ lastRun.cursorAtRestore # lastRun.cursorBefore
            => lastRun.answer # NoId /\ lastRun.cursorAtRestore = lastRun.answer + 1

\* C40: every message the chat shows as coming from Peer was signed by the
\* counterparty's trade key of the order; a validly signed event of any third key,
\* wrapped to the shared public key, is not shown as a peer message.
C40_PeerIsTheCounterparty ==
  lastRun.net.fn = "chat"
    => \A i \in DOMAIN lastRun.net.shown :
         lastRun.net.shown[i].label = "Peer"
           => lastRun.net.shown[i].senderPubkey = getPublicKey("peer")

====
